---- MODULE Spec2Model ----
(***************************************************************************)
(* LightHost node-graph canvas (NodeGraphCanvas), the AudioProcessorGraph  *)
(* it drives, and the persisted nodeGraphState document.                   *)
(*                                                                         *)
(* One action per handler: the device-dialog callback (addNode), the       *)
(* plugin-picker callback, mouseDown / mouseDrag / mouseUp, keyPressed,    *)
(* the node context-menu callback (disconnectNode / removeNode), the       *)
(* plugin editor changing a processor's state, and application relaunch    *)
(* (IconMenu constructor: loadActivePlugins followed by loadState).        *)
(***************************************************************************)
EXTENDS Integers, Sequences, FiniteSets, TLC

VARIABLES
    nodes,              \* std::vector<PluginNode> nodes
    wires,              \* std::vector<NodeWire> wires
    nextId,             \* int nextId
    selectedNode,       \* int selectedNode
    draggingNode,       \* int draggingNode
    draggingWire,       \* bool draggingWire
    wireDragFromInput,  \* bool wireDragFromInput
    wireFrom,           \* int wireFrom
    buttonDown,         \* the mouse source holds a button down (between mouseDown and mouseUp)
    menu,               \* pending node context menu: Some(hitNode), or None
    graphNodes,         \* AudioProcessorGraph nodes: NodeID.uid -> processor
    graphConns,         \* AudioProcessorGraph connections <<src, srcCh, dst, dstCh>>
    lastNodeID,         \* AudioProcessorGraph::lastNodeID
    launches,           \* how many times the application has been started again
    settings,           \* user settings value "nodeGraphState": Some(document), or None
    last,               \* history: the handler that ran last and what it did
    dllLoaded,          \* VoicemeeterAPI::dllLoaded (isAvailable)
    deviceOpen,         \* bool deviceOpen
    devicePlaying,      \* bool devicePlaying
    loggedIn,           \* bool loggedIn
    callbackRegistered, \* bool callbackRegistered
    juceCallback,       \* std::atomic<AudioIODeviceCallback*> juceCallback (0 is nullptr)
    activeChannels,     \* bits set in activeInputChannels and activeOutputChannels
    vm,                 \* the Voicemeeter backend: session, registered callback, stream
    audio,              \* the backend's audio thread inside handleVoicemeeterCallback
    calls,              \* history: the device call made last and the callbacks in use
    aliveFlag,          \* the value of *aliveFlag (shared with the posted tasks)
    destroyed,          \* ~VoicemeeterAudioIODevice has returned
    pending,            \* MessageManager queue: the callAsync tasks posted and not yet run
    deferred            \* history: what the handler or the posted task that ran last did

vars == <<nodes, wires, nextId, selectedNode, draggingNode, draggingWire,
          wireDragFromInput, wireFrom, buttonDown, menu, graphNodes, graphConns,
          lastNodeID, launches, settings, last,
          dllLoaded, deviceOpen, devicePlaying, loggedIn, callbackRegistered,
          juceCallback, activeChannels, vm, audio, calls,
          aliveFlag, destroyed, pending, deferred>>

canvasVars == <<nodes, wires, nextId>>
dragVars   == <<draggingNode, draggingWire, wireDragFromInput, wireFrom>>
graphVars  == <<graphNodes, graphConns, lastNodeID>>
deferVars  == <<aliveFlag, destroyed, pending, deferred>>
deviceVars == <<dllLoaded, deviceOpen, devicePlaying, loggedIn, callbackRegistered,
                juceCallback, activeChannels, vm, audio, calls, deferVars>>
appVars    == <<nodes, wires, nextId, selectedNode, draggingNode, draggingWire,
                wireDragFromInput, wireFrom, buttonDown, menu, graphNodes, graphConns,
                lastNodeID, launches, settings, last>>

----------------------------------------------------------------------------
(* Bounds of the model *)

\* ids handed out by nextId++ never exceed MaxId (at most MaxId nodes alive)
MaxId == 3

\* the application is started again at most MaxLaunches times
MaxLaunches == 1

\* ids handed out in the sessions that are followed across a relaunch
MaxSessionId == 2

\* a nodeGraphState document found in the settings file at startup holds at most this
\* many Node elements and Wire elements
MaxDocNodes == 2
MaxDocWires == 2

----------------------------------------------------------------------------
(* Program constants *)

kW == 140
kH == 56
kSideH == 40
kPortR == 7
kZoneW == 170
kHdrH == 34
kInputNodeUID == 1000000
kOutputNodeUID == 1000001
\* size given to the content component, hence getWidth() / getHeight()
Width == 900
Height == 560

NodeTypes == {"Input", "Output", "Plugin"}

\* an optional value is a sequence of length 0 or 1
None == << >>
Some(v) == << v >>

Max(a, b) == IF a > b THEN a ELSE b
Min(a, b) == IF a < b THEN a ELSE b

\* static_cast<int>(NodeType) and back
TypeToInt(t) == CASE t = "Input" -> 0 [] t = "Output" -> 1 [] OTHER -> 2
IntToType(i) == CASE i = 0 -> "Input" [] i = 1 -> "Output" [] OTHER -> "Plugin"

\* Names the device dialog can hand to addNode
DeviceNames == {"Device"}

\* KnownPluginList::getTypes(): the descriptors the picker offers, in list order
KnownPlugins ==
    << [name |-> "Reverb", pluginFormatName |-> "VST3",
        fileOrIdentifier |-> "reverb.vst3", channels |-> 2] >>

\* formats registered by addDefaultFormatsToManager
KnownFormats == {"VST3"}

\* Opaque plugin state (MemoryBlock contents, bytes)
DefaultState == <<>>
EditedState == <<200, 7>>
PluginStates == {DefaultState, EditedState}

\* the two AudioGraphIOProcessor nodes
IOInput  == [kind |-> "audioInputNode",  desc |-> <<>>, state |-> <<>>]
IOOutput == [kind |-> "audioOutputNode", desc |-> <<>>, state |-> <<>>]

NumOutputChannels(proc) ==
    CASE proc.kind = "audioInputNode"  -> 2
      [] proc.kind = "audioOutputNode" -> 0
      [] OTHER -> proc.desc[1].channels

NumInputChannels(proc) ==
    CASE proc.kind = "audioInputNode"  -> 0
      [] proc.kind = "audioOutputNode" -> 2
      [] OTHER -> proc.desc[1].channels

----------------------------------------------------------------------------
(* PluginNode geometry *)

\* faulty variant: every node is taken to have an input port
hasInputPort_Always(n) == TRUE

hasInputPort(n)  == n.type # "Input"
hasOutputPort(n) == n.type # "Output"

inputPort(n)  == << n.pos[1],      n.pos[2] + kH \div 2 >>
outputPort(n) == << n.pos[1] + kW, n.pos[2] + kH \div 2 >>
bounds(n)     == [x |-> n.pos[1], y |-> n.pos[2], w |-> kW, h |-> kH]

inputPortPos(n) ==
    IF n.type = "Input" THEN << -999, -999 >>
    ELSE IF n.type = "Output" THEN << Width - kZoneW, n.pos[2] + kSideH \div 2 >>
    ELSE inputPort(n)

outputPortPos(n) ==
    IF n.type = "Output" THEN << -999, -999 >>
    ELSE IF n.type = "Input" THEN << kZoneW, n.pos[2] + kSideH \div 2 >>
    ELSE outputPort(n)

nodeBounds(n) ==
    IF n.type = "Input" THEN [x |-> 0, y |-> n.pos[2], w |-> kZoneW, h |-> kSideH]
    ELSE IF n.type = "Output"
         THEN [x |-> Width - kZoneW, y |-> n.pos[2], w |-> kZoneW, h |-> kSideH]
    ELSE bounds(n)

\* Rectangle<int>::contains (Point)
Contains(r, p) ==
    /\ p[1] >= r.x /\ p[2] >= r.y
    /\ p[1] < r.x + r.w /\ p[2] < r.y + r.h

\* Point::getDistanceFrom (p) <= kSnap, on the squares
kSnap == kPortR + 6
WithinSnap(a, b) ==
    (a[1] - b[1]) * (a[1] - b[1]) + (a[2] - b[2]) * (a[2] - b[2]) <= kSnap * kSnap

----------------------------------------------------------------------------
(* Hit testing *)

Indices(s) == 1..Len(s)

\* last node (top of z-order) whose bounds contain p, else -1
nodeAtPoint(ns, p) ==
    LET hits == {i \in Indices(ns) : Contains(nodeBounds(ns[i]), p)}
    IN IF hits = {} THEN -1
       ELSE ns[CHOOSE i \in hits : \A j \in hits : j <= i].id

\* first node whose output port is within kSnap of p, else -1 (returns false)
nearOutputPort(ns, p) ==
    LET hits == {i \in Indices(ns) :
                    hasOutputPort(ns[i]) /\ WithinSnap(outputPortPos(ns[i]), p)}
    IN IF hits = {} THEN -1
       ELSE ns[CHOOSE i \in hits : \A j \in hits : i <= j].id

nearInputPort(ns, p) ==
    LET hits == {i \in Indices(ns) :
                    hasInputPort(ns[i]) /\ WithinSnap(inputPortPos(ns[i]), p)}
    IN IF hits = {} THEN -1
       ELSE ns[CHOOSE i \in hits : \A j \in hits : i <= j].id

\* "for nd in nodes: if (nd.id == id) ptr = &nd": the LAST node with that id
HasNode(ns, id) == \E i \in Indices(ns) : ns[i].id = id
FindLast(ns, id) ==
    ns[CHOOSE i \in Indices(ns) :
          ns[i].id = id /\ \A j \in Indices(ns) : ns[j].id = id => j <= i]
\* "for nd in nodes: if (nd.id == id) { ...; break; }": the FIRST node with that id
FindFirst(ns, id) ==
    ns[CHOOSE i \in Indices(ns) :
          ns[i].id = id /\ \A j \in Indices(ns) : ns[j].id = id => i <= j]

\* faulty variant: the self-loop test is missing
isValidWire_SelfLoop(ns, fromId, toId) ==
    IF ~HasNode(ns, fromId) \/ ~HasNode(ns, toId) THEN FALSE
    ELSE LET fr == FindLast(ns, fromId)
             to == FindLast(ns, toId)
         IN IF ~hasOutputPort(fr) \/ ~hasInputPort(to) THEN FALSE
            ELSE TRUE

isValidWire(ns, fromId, toId) ==
    IF fromId = toId THEN FALSE
    ELSE IF ~HasNode(ns, fromId) \/ ~HasNode(ns, toId) THEN FALSE
    ELSE LET fr == FindLast(ns, fromId)
             to == FindLast(ns, toId)
         IN IF ~hasOutputPort(fr) \/ ~hasInputPort(to) THEN FALSE
            ELSE IF fr.type = "Input" /\ to.type = "Input" THEN FALSE
            ELSE IF fr.type = "Output" /\ to.type = "Output" THEN FALSE
            ELSE TRUE

----------------------------------------------------------------------------
(* AudioProcessorGraph, as NodeGraphCanvas and IconMenu use it *)

HasGraphNode(gn, uid) == uid \in DOMAIN gn      \* graph.getNodeForId (uid) != nullptr

Conn(src, dst, ch) == << src, ch, dst, ch >>

\* graph.addConnection: refused (false) unless both nodes exist, differ, own the
\* channel, and the connection is not there yet
canConnect(gn, conns, c) ==
    /\ HasGraphNode(gn, c[1]) /\ HasGraphNode(gn, c[3])
    /\ c[1] # c[3]
    /\ c[2] < NumOutputChannels(gn[c[1]])
    /\ c[4] < NumInputChannels(gn[c[3]])
    /\ c \notin conns

addConnection(gn, conns, c) == IF canConnect(gn, conns, c) THEN conns \cup {c} ELSE conns

\* faulty variant: the engine keeps the node it is asked to remove
graphRemoveNode_Keeps(gn, uid) == gn

\* graph.removeNode: the node goes, and every connection that has it as an end
graphRemoveNode(gn, uid) == [u \in DOMAIN gn \ {uid} |-> gn[u]]
graphDisconnectNode(conns, uid) == {c \in conns : c[1] # uid /\ c[3] # uid}

\* graph.addNode with no NodeID given: the id after lastNodeID
graphAddNode(gn, uid, proc) == [u \in DOMAIN gn \cup {uid} |-> IF u = uid THEN proc ELSE gn[u]]

\* the engine holds a link E1 -> E2 when it holds a route on some channel
Linked(conns, e1, e2) == \E c \in conns : c[1] = e1 /\ c[3] = e2

----------------------------------------------------------------------------
(* NodeGraphCanvas graph helpers; each returns the new connection set *)

\* faulty variant: only channel 0 is connected
addGraphConnection_Mono(gn, conns, from, to) ==
    IF ~HasGraphNode(gn, from.graphNodeId) \/ ~HasGraphNode(gn, to.graphNodeId) THEN conns
    ELSE addConnection(gn, conns, Conn(from.graphNodeId, to.graphNodeId, 0))

\* faulty variant: channel 1 is tried only after channel 0 was accepted
addGraphConnection_StopsOnRefusal(gn, conns, from, to) ==
    IF ~HasGraphNode(gn, from.graphNodeId) \/ ~HasGraphNode(gn, to.graphNodeId) THEN conns
    ELSE IF ~canConnect(gn, conns, Conn(from.graphNodeId, to.graphNodeId, 0)) THEN conns
    ELSE addConnection(gn,
             addConnection(gn, conns, Conn(from.graphNodeId, to.graphNodeId, 0)),
             Conn(from.graphNodeId, to.graphNodeId, 1))

\* addGraphConnection: the connection set it leaves
addGraphConnection(gn, conns, from, to) ==
    IF ~HasGraphNode(gn, from.graphNodeId) THEN conns
    ELSE IF ~HasGraphNode(gn, to.graphNodeId) THEN conns
    ELSE addConnection(gn,
             addConnection(gn, conns, Conn(from.graphNodeId, to.graphNodeId, 0)),
             Conn(from.graphNodeId, to.graphNodeId, 1))

\* number of graph.rebuild() calls addGraphConnection makes
addGraphConnectionRebuilds(gn, from, to) ==
    IF HasGraphNode(gn, from.graphNodeId) /\ HasGraphNode(gn, to.graphNodeId) THEN 1 ELSE 0

removeGraphConnection(conns, from, to) ==
    conns \ { Conn(from.graphNodeId, to.graphNodeId, 0),
              Conn(from.graphNodeId, to.graphNodeId, 1) }

\* wires into toNode whose source node is found in the node list
IncomingFound(ns, ws, toNode) ==
    {i \in Indices(ws) : ws[i].toNode = toNode.id /\ HasNode(ns, ws[i].fromNode)}

\* faulty variant: the engine keeps the superseded connections
clearGraphInputConnections_KeepsEngine(ns, ws, conns, toNode) == conns

\* clearGraphInputConnections: engine part
clearGraphInputConnections(ns, ws, conns, toNode) ==
    conns \ UNION { { Conn(FindFirst(ns, ws[i].fromNode).graphNodeId, toNode.graphNodeId, 0),
                      Conn(FindFirst(ns, ws[i].fromNode).graphNodeId, toNode.graphNodeId, 1) }
                    : i \in IncomingFound(ns, ws, toNode) }

\* faulty variant: the wire list keeps the superseded wires
clearInputWires_KeepsWires(ws, toNode) == ws

\* faulty variant: the wires leaving toNode are erased as well
clearInputWires_Both(ws, toNode) ==
    SelectSeq(ws, LAMBDA w : w.toNode # toNode.id /\ w.fromNode # toNode.id)

\* clearGraphInputConnections: wire-list part (erase / remove_if)
clearInputWires(ws, toNode) == SelectSeq(ws, LAMBDA w : w.toNode # toNode.id)

\* disconnectNode: the wires touching nodeId, and what is left of both sides
TouchingFound(ns, ws, nodeId) ==
    {i \in Indices(ws) : (ws[i].fromNode = nodeId \/ ws[i].toNode = nodeId)
                          /\ HasNode(ns, ws[i].fromNode) /\ HasNode(ns, ws[i].toNode)}

disconnectNodeConns(ns, ws, conns, nodeId) ==
    conns \ UNION { { Conn(FindLast(ns, ws[i].fromNode).graphNodeId,
                           FindLast(ns, ws[i].toNode).graphNodeId, 0),
                      Conn(FindLast(ns, ws[i].fromNode).graphNodeId,
                           FindLast(ns, ws[i].toNode).graphNodeId, 1) }
                    : i \in TouchingFound(ns, ws, nodeId) }

disconnectNodeWires(ws, nodeId) ==
    SelectSeq(ws, LAMBDA w : ~(w.fromNode = nodeId \/ w.toNode = nodeId))

----------------------------------------------------------------------------
(* XML attribute and MemoryBlock text conversions (strings are sequences of *)
(* one-character strings)                                                   *)

Digits == << "0", "1", "2", "3", "4", "5", "6", "7", "8", "9" >>

RECURSIVE NatToDec(_)
NatToDec(n) == IF n < 10 THEN << Digits[n + 1] >>
               ELSE Append(NatToDec(n \div 10), Digits[(n % 10) + 1])

\* String (int): XmlElement::setAttribute (name, int)
IntToString(n) == IF n < 0 THEN << "-" >> \o NatToDec(0 - n) ELSE NatToDec(n)

IsDigit(c) == \E d \in 1..10 : Digits[d] = c
DigitValue(c) == (CHOOSE d \in 1..10 : Digits[d] = c) - 1

\* value of the leading run of digits of s, starting from acc
RECURSIVE DecToNat(_, _)
DecToNat(s, acc) ==
    IF s = << >> \/ ~IsDigit(Head(s)) THEN acc
    ELSE DecToNat(Tail(s), acc * 10 + DigitValue(Head(s)))

\* String::getIntValue: XmlElement::getIntAttribute (a missing attribute reads 0)
getIntValue(s) ==
    IF s # << >> /\ Head(s) = "-" THEN 0 - DecToNat(Tail(s), 0) ELSE DecToNat(s, 0)

base64EncodingTable ==
    << ".", "A", "B", "C", "D", "E", "F", "G", "H", "I", "J", "K", "L", "M", "N", "O",
       "P", "Q", "R", "S", "T", "U", "V", "W", "X", "Y", "Z", "a", "b", "c", "d", "e",
       "f", "g", "h", "i", "j", "k", "l", "m", "n", "o", "p", "q", "r", "s", "t", "u",
       "v", "w", "x", "y", "z", "0", "1", "2", "3", "4", "5", "6", "7", "8", "9", "+" >>

Pow2(k) == CASE k = 0 -> 1 [] k = 1 -> 2 [] k = 2 -> 4 [] k = 3 -> 8
             [] k = 4 -> 16 [] k = 5 -> 32 [] k = 6 -> 64 [] OTHER -> 128

\* bit k of the block, least significant bit of byte 0 first; 0 past the end
BlockBit(mb, k) ==
    IF k \div 8 < Len(mb) THEN (mb[(k \div 8) + 1] \div Pow2(k % 8)) % 2 ELSE 0

\* MemoryBlock::getBitRange (i * 6, 6)
getBitRange6(mb, i) ==
    BlockBit(mb, 6 * i) + 2 * BlockBit(mb, 6 * i + 1) + 4 * BlockBit(mb, 6 * i + 2)
      + 8 * BlockBit(mb, 6 * i + 3) + 16 * BlockBit(mb, 6 * i + 4)
      + 32 * BlockBit(mb, 6 * i + 5)

\* MemoryBlock::toBase64Encoding: the size, a '.', then one character per 6 bits
toBase64Encoding(mb) ==
    LET numChars == (Len(mb) * 8 + 5) \div 6
    IN IntToString(Len(mb)) \o << "." >>
         \o [i \in 1..numChars |-> base64EncodingTable[getBitRange6(mb, i - 1) + 1]]

DotAt(s) == CHOOSE i \in Indices(s) : s[i] = "." /\ \A j \in 1..(i - 1) : s[j] # "."
InTable(c) == \E v \in 1..64 : base64EncodingTable[v] = c
TableValue(c) == (CHOOSE v \in 1..64 : base64EncodingTable[v] = c) - 1

\* bit k of the character stream
CharsBit(cs, k) ==
    IF k \div 6 < Len(cs) THEN (TableValue(cs[(k \div 6) + 1]) \div Pow2(k % 6)) % 2 ELSE 0

\* MemoryBlock::fromBase64Encoding: no '.' leaves the block empty
fromBase64Encoding(s) ==
    IF ~\E i \in Indices(s) : s[i] = "." THEN << >>
    ELSE LET dot  == DotAt(s)
             size == Max(0, getIntValue(SubSeq(s, 1, dot - 1)))
             cs   == SelectSeq(SubSeq(s, dot + 1, Len(s)), InTable)
         IN [b \in 1..size |->
               CharsBit(cs, 8 * (b - 1)) + 2 * CharsBit(cs, 8 * (b - 1) + 1)
                 + 4 * CharsBit(cs, 8 * (b - 1) + 2) + 8 * CharsBit(cs, 8 * (b - 1) + 3)
                 + 16 * CharsBit(cs, 8 * (b - 1) + 4) + 32 * CharsBit(cs, 8 * (b - 1) + 5)
                 + 64 * CharsBit(cs, 8 * (b - 1) + 6) + 128 * CharsBit(cs, 8 * (b - 1) + 7)]

----------------------------------------------------------------------------
(* Persistence: saveState / loadState *)

\* what createPluginInstance / graph.addNode can answer for one plugin
Outcomes == {"ok", "noInstance", "noNode"}

\* AudioPluginInstance::fillInPluginDescription; an IO processor is no
\* AudioPluginInstance and leaves the description empty
ProcDescription(proc) ==
    IF proc.kind = "plugin" THEN proc.desc[1]
    ELSE [name |-> "", pluginFormatName |-> "", fileOrIdentifier |-> "", channels |-> 0]

saveNode(n, gn) ==
    [ id   |-> IntToString(n.id),
      type |-> IntToString(TypeToInt(n.type)),
      name |-> n.name,
      x    |-> IntToString(n.pos[1]),
      y    |-> IntToString(n.pos[2]),
      plugin |->
        IF n.type = "Plugin" /\ HasGraphNode(gn, n.graphNodeId)
        THEN Some([ pluginName             |-> ProcDescription(gn[n.graphNodeId]).name,
                    pluginFormat           |-> ProcDescription(gn[n.graphNodeId]).pluginFormatName,
                    pluginFileOrIdentifier |-> ProcDescription(gn[n.graphNodeId]).fileOrIdentifier,
                    PluginState            |-> toBase64Encoding(gn[n.graphNodeId].state) ])
        ELSE None ]

\* a Wire element written with its two attributes exchanged
saveWire_Reversed(w) == [ from |-> IntToString(w.toNode), to |-> IntToString(w.fromNode) ]

\* the Wire element saveState writes for one wire
saveWire(w) == [ from |-> IntToString(w.fromNode), to |-> IntToString(w.toNode) ]

saveState(ns, ws, gn) ==
    [ hasNodes |-> TRUE, Nodes |-> [i \in Indices(ns) |-> saveNode(ns[i], gn)],
      hasWires |-> TRUE, Wires |-> [i \in Indices(ws) |-> saveWire(ws[i])] ]

\* faulty variant: a persisted plugin that is not in the known list resolves to an
\* empty description
MatchDescription_NoFallback(known, pluginName, formatName, identifier) ==
    LET hits == {i \in Indices(known) : known[i].fileOrIdentifier = identifier}
    IN IF hits # {} THEN known[CHOOSE i \in hits : \A j \in hits : i <= j]
       ELSE [name |-> "", pluginFormatName |-> "", fileOrIdentifier |-> "", channels |-> 2]

\* the description loadState instantiates, given knownPlugins.getTypes(): the first known
\* type with the persisted fileOrIdentifier, else the bare persisted triple
MatchDescription(known, pluginName, formatName, identifier) ==
    LET hits == {i \in Indices(known) : known[i].fileOrIdentifier = identifier}
    IN IF hits # {} THEN known[CHOOSE i \in hits : \A j \in hits : i <= j]
       ELSE [name |-> pluginName, pluginFormatName |-> formatName,
             fileOrIdentifier |-> identifier, channels |-> 2]

\* ... with the application's known-plugin list
ResolveDescription(pluginName, formatName, identifier) ==
    MatchDescription(KnownPlugins, pluginName, formatName, identifier)

\* faulty variant: createPluginInstance never fails
CanInstantiate_Always(desc, outcome) == TRUE

\* createPluginInstance can only answer for a format the manager knows
CanInstantiate(desc, outcome) == desc.pluginFormatName \in KnownFormats /\ outcome # "noInstance"

\* the Plugin branch of the Nodes loop reaches "Successfully added plugin node"
Instantiates(xn, outcome) ==
    LET desc == IF xn.plugin = None THEN ResolveDescription("", "", "")
                ELSE ResolveDescription(xn.plugin[1].pluginName, xn.plugin[1].pluginFormat,
                                        xn.plugin[1].pluginFileOrIdentifier)
    IN CanInstantiate(desc, outcome) /\ outcome = "ok"

\* faulty variant: loadState leaves nextId alone
NextIdAfter_Keeps(id, nid) == nid

\* if (n.id >= nextId) nextId = n.id + 1
NextIdAfter(id, nid) == IF id >= nid THEN id + 1 ELSE nid

\* one iteration of the Nodes loop of loadState; acc carries nodes, nextId and the graph
loadNodeWith(known, xn, outcome, acc) ==
    LET id   == getIntValue(xn.id)
        type == IntToType(getIntValue(xn.type))
        pos  == << getIntValue(xn.x), getIntValue(xn.y) >>
        nid  == NextIdAfter(id, acc.nextId)
        desc == IF xn.plugin = None THEN MatchDescription(known, "", "", "")
                ELSE MatchDescription(known, xn.plugin[1].pluginName,
                                      xn.plugin[1].pluginFormat,
                                      xn.plugin[1].pluginFileOrIdentifier)
        made == type = "Plugin" /\ CanInstantiate(desc, outcome) /\ outcome = "ok"
        uid  == acc.lastNodeID + 1
        proc == [kind |-> "plugin", desc |-> Some(desc),
                 state |-> IF xn.plugin = None THEN DefaultState
                           ELSE fromBase64Encoding(xn.plugin[1].PluginState)]
        gid  == CASE type = "Input"  -> kInputNodeUID
                  [] type = "Output" -> kOutputNodeUID
                  [] OTHER -> IF made THEN uid ELSE 0
    IN [ nodes  |-> Append(acc.nodes, [id |-> id, type |-> type, name |-> xn.name,
                                       pos |-> pos, graphNodeId |-> gid]),
         nextId |-> nid,
         graphNodes |-> IF made THEN graphAddNode(acc.graphNodes, uid, proc) ELSE acc.graphNodes,
         lastNodeID |-> IF made THEN uid ELSE acc.lastNodeID ]

\* one iteration of the Nodes loop of loadState, with the application's known-plugin list
loadNode(xn, outcome, acc) == loadNodeWith(KnownPlugins, xn, outcome, acc)

RECURSIVE loadNodes(_, _, _, _)
loadNodes(xns, outcomes, i, acc) ==
    IF i > Len(xns) THEN acc
    ELSE loadNodes(xns, outcomes, i + 1, loadNode(xns[i], outcomes[i], acc))

\* faulty variant: a wire whose source is missing or failed is connected from the
\* fixed input node
loadWire_Defaulting(xw, ns, gn, acc) ==
    LET w == [fromNode |-> getIntValue(xw.from), toNode |-> getIntValue(xw.to)]
        toOk == HasNode(ns, w.toNode) /\ FindLast(ns, w.toNode).graphNodeId # 0
        frOk == HasNode(ns, w.fromNode) /\ FindLast(ns, w.fromNode).graphNodeId # 0
        fr == IF frOk THEN FindLast(ns, w.fromNode) ELSE [graphNodeId |-> kInputNodeUID]
    IN [ wires |-> Append(acc.wires, w),
         conns |-> IF toOk THEN addGraphConnection(gn, acc.conns, fr, FindLast(ns, w.toNode))
                   ELSE acc.conns,
         rebuilds |-> acc.rebuilds
                        + (IF toOk THEN addGraphConnectionRebuilds(gn, fr, FindLast(ns, w.toNode))
                           ELSE 0) ]

\* one iteration of the Wires loop of loadState; acc carries wires, connections, rebuilds
loadWire(xw, ns, gn, acc) ==
    LET w == [fromNode |-> getIntValue(xw.from), toNode |-> getIntValue(xw.to)]
        both == HasNode(ns, w.fromNode) /\ HasNode(ns, w.toNode)
        go == both /\ FindLast(ns, w.fromNode).graphNodeId # 0
                   /\ FindLast(ns, w.toNode).graphNodeId # 0
    IN [ wires |-> Append(acc.wires, w),
         conns |-> IF go THEN addGraphConnection(gn, acc.conns, FindLast(ns, w.fromNode),
                                                 FindLast(ns, w.toNode))
                   ELSE acc.conns,
         rebuilds |-> acc.rebuilds
                        + (IF go THEN addGraphConnectionRebuilds(gn, FindLast(ns, w.fromNode),
                                                                 FindLast(ns, w.toNode))
                           ELSE 0) ]

RECURSIVE loadWires(_, _, _, _, _)
loadWires(xws, ns, gn, i, acc) ==
    IF i > Len(xws) THEN acc
    ELSE loadWires(xws, ns, gn, i + 1, loadWire(xws[i], ns, gn, acc))

\* faulty variant: loadState returns without its final graph.rebuild()
loadState_NoFinalRebuild(doc, outcomes, nid0, gn0, conns0, last0) ==
    IF ~doc.hasNodes
    THEN [ nodes |-> << >>, wires |-> << >>, nextId |-> nid0, graphNodes |-> gn0,
           graphConns |-> conns0, lastNodeID |-> last0, rebuilds |-> 0 ]
    ELSE LET a == loadNodes(doc.Nodes, outcomes, 1,
                            [nodes |-> << >>, nextId |-> nid0, graphNodes |-> gn0,
                             lastNodeID |-> last0])
             b == IF doc.hasWires
                  THEN loadWires(doc.Wires, a.nodes, a.graphNodes, 1,
                                 [wires |-> << >>, conns |-> conns0, rebuilds |-> 0])
                  ELSE [wires |-> << >>, conns |-> conns0, rebuilds |-> 0]
         IN [ nodes |-> a.nodes, wires |-> b.wires, nextId |-> a.nextId,
              graphNodes |-> a.graphNodes, graphConns |-> b.conns,
              lastNodeID |-> a.lastNodeID, rebuilds |-> b.rebuilds ]

\* loadState as a function of the document, the instantiation outcomes and the state it
\* starts from: the resulting nodes, wires, nextId, graph, and number of rebuilds
loadState(doc, outcomes, nid0, gn0, conns0, last0) ==
    IF ~doc.hasNodes
    THEN [ nodes |-> << >>, wires |-> << >>, nextId |-> nid0, graphNodes |-> gn0,
           graphConns |-> conns0, lastNodeID |-> last0, rebuilds |-> 0 ]
    ELSE LET a == loadNodes(doc.Nodes, outcomes, 1,
                            [nodes |-> << >>, nextId |-> nid0, graphNodes |-> gn0,
                             lastNodeID |-> last0])
             b == IF doc.hasWires
                  THEN loadWires(doc.Wires, a.nodes, a.graphNodes, 1,
                                 [wires |-> << >>, conns |-> conns0, rebuilds |-> 0])
                  ELSE [wires |-> << >>, conns |-> conns0, rebuilds |-> 0]
         IN [ nodes |-> a.nodes, wires |-> b.wires, nextId |-> a.nextId,
              graphNodes |-> a.graphNodes, graphConns |-> b.conns,
              lastNodeID |-> a.lastNodeID, rebuilds |-> b.rebuilds + 1 ]

----------------------------------------------------------------------------
(* Inputs: where the mouse can be pressed, dragged to and released *)

EmptyPoint == << 450, 530 >>
DragPoints == { << 240, 300 >> }

Centre(r) == << r.x + r.w \div 2, r.y + r.h \div 2 >>

MousePoints ==
    {EmptyPoint}
      \cup {Centre(nodeBounds(nodes[i])) : i \in Indices(nodes)}
      \cup {outputPortPos(nodes[i]) : i \in {j \in Indices(nodes) : hasOutputPort(nodes[j])}}
      \cup {inputPortPos(nodes[i]) : i \in {j \in Indices(nodes) : hasInputPort(nodes[j])}}

\* history record: the operation, its two arguments, the onGraphChanged and graph.rebuild
\* calls it made, the node ids it touched besides (see each handler), and the number of
\* engine changes it made after its last graph.rebuild call
Did(op, a, b, notified, rebuilds, others) ==
    [op |-> op, a |-> a, b |-> b, notified |-> notified, rebuilds |-> rebuilds,
     others |-> others, unbuilt |-> 0]

CountType(ns, t) == Cardinality({i \in Indices(ns) : ns[i].type = t})

----------------------------------------------------------------------------
(* VoicemeeterAudioIODevice: open / close / start / stop called by the     *)
(* client on the message thread, and the BUFFER_IN / BUFFER_OUT branch of  *)
(* handleVoicemeeterCallback run by the backend on its audio thread.       *)

\* the client owns at most MaxCallbacks AudioIODeviceCallback objects
MaxCallbacks == 2
Callbacks == 1..MaxCallbacks
nullptr == 0

\* return codes of VBVMR_Login, VBVMR_AudioCallbackRegister, VBVMR_AudioCallbackStart
LoginResults == {0, 1, -1}
RegisterResults == {0, 1, -1}
StartResults == {0, -1}

\* number of the bus's channels the client asks open() to activate
ChannelCounts == {0, 2}

\* what open() returns
Opened == ""
ErrNotAvailable == "Voicemeeter Remote API not available"
ErrLogin == "Failed to login to Voicemeeter"
ErrInUse == "Voicemeeter bus already in use by: "
ErrRegister == "Failed to register with Voicemeeter"

\* The backend (VoicemeeterRemote DLL), as its interface documents it: a login session,
\* one registered audio callback, and the stream that calls it between Start and Stop.
\* A call that returns an error code changes nothing.
VBVMR_Login(b, result) == IF result >= 0 THEN [b EXCEPT !.session = TRUE] ELSE b
VBVMR_Logout(b) == [b EXCEPT !.session = FALSE]
VBVMR_AudioCallbackRegister(b, result) ==
    IF result = 0 THEN [b EXCEPT !.registered = TRUE] ELSE b
VBVMR_AudioCallbackUnregister(b) == [b EXCEPT !.registered = FALSE, !.streaming = FALSE]
VBVMR_AudioCallbackStart(b, result) ==
    IF result = 0 /\ b.registered THEN [b EXCEPT !.streaming = TRUE] ELSE b
VBVMR_AudioCallbackStop(b) == [b EXCEPT !.streaming = FALSE]

\* the device's members and the backend as one value; stopped collects the callbacks
\* that receive audioDeviceStopped during the call
Device ==
    [deviceOpen |-> deviceOpen, devicePlaying |-> devicePlaying, loggedIn |-> loggedIn,
     callbackRegistered |-> callbackRegistered, juceCallback |-> juceCallback,
     activeChannels |-> activeChannels, vm |-> vm, stopped |-> {}]

\* VoicemeeterAudioIODevice::stop
stop(d) ==
    IF d.devicePlaying
    THEN [d EXCEPT !.vm = IF dllLoaded THEN VBVMR_AudioCallbackStop(@) ELSE @,
                   !.juceCallback = nullptr,
                   !.devicePlaying = FALSE,
                   !.stopped = IF d.juceCallback # nullptr THEN @ \cup {d.juceCallback} ELSE @]
    ELSE d

\* faulty variant: close() that leaves a running stream alone
close_NoStop(d) ==
    LET u == IF dllLoaded /\ d.callbackRegistered
             THEN [d EXCEPT !.vm = VBVMR_AudioCallbackUnregister(@),
                            !.callbackRegistered = FALSE]
             ELSE d
        l == IF dllLoaded /\ u.loggedIn
             THEN [u EXCEPT !.vm = VBVMR_Logout(@), !.loggedIn = FALSE]
             ELSE u
    IN  [l EXCEPT !.deviceOpen = FALSE]

\* VoicemeeterAudioIODevice::close
close(d) ==
    LET s == stop(d)
        u == IF dllLoaded /\ s.callbackRegistered
             THEN [s EXCEPT !.vm = VBVMR_AudioCallbackUnregister(@),
                            !.callbackRegistered = FALSE]
             ELSE s
        l == IF dllLoaded /\ u.loggedIn
             THEN [u EXCEPT !.vm = VBVMR_Logout(@), !.loggedIn = FALSE]
             ELSE u
    IN  [l EXCEPT !.deviceOpen = FALSE]

\* faulty variant: open() that returns a registration error without calling close()
open_NoCloseOnError(d, channels, loginResult, regResult) ==
    LET c == close(d)
        s == [c EXCEPT !.vm = VBVMR_Login(@, loginResult)]
        r == [s EXCEPT !.loggedIn = TRUE,
                       !.vm = VBVMR_AudioCallbackRegister(@, regResult)]
    IN  IF ~dllLoaded THEN [dev |-> c, result |-> ErrNotAvailable]
        ELSE IF loginResult < 0 THEN [dev |-> s, result |-> ErrLogin]
        ELSE IF regResult = 1 THEN [dev |-> r, result |-> ErrInUse]
        ELSE IF regResult # 0 THEN [dev |-> r, result |-> ErrRegister]
        ELSE [dev |-> [r EXCEPT !.callbackRegistered = TRUE,
                                !.activeChannels = channels,
                                !.deviceOpen = TRUE],
              result |-> Opened]

\* VoicemeeterAudioIODevice::open: the device afterwards and the string returned
open(d, channels, loginResult, regResult) ==
    LET c == close(d)
        s == [c EXCEPT !.vm = VBVMR_Login(@, loginResult)]
        r == [s EXCEPT !.loggedIn = TRUE,
                       !.vm = VBVMR_AudioCallbackRegister(@, regResult)]
    IN  IF ~dllLoaded THEN [dev |-> c, result |-> ErrNotAvailable]
        ELSE IF loginResult < 0 THEN [dev |-> s, result |-> ErrLogin]
        ELSE IF regResult = 1 THEN [dev |-> close(r), result |-> ErrInUse]
        ELSE IF regResult # 0 THEN [dev |-> close(r), result |-> ErrRegister]
        ELSE [dev |-> [r EXCEPT !.callbackRegistered = TRUE,
                                !.activeChannels = channels,
                                !.deviceOpen = TRUE],
              result |-> Opened]

\* faulty variant: start() that does not test deviceOpen
start_Unguarded(d, callback, startResult) ==
    IF callback # nullptr
    THEN [d EXCEPT !.juceCallback = callback,
                   !.vm = IF dllLoaded THEN VBVMR_AudioCallbackStart(@, startResult) ELSE @,
                   !.devicePlaying = TRUE]
    ELSE d

\* VoicemeeterAudioIODevice::start
start(d, callback, startResult) ==
    IF callback # nullptr /\ d.deviceOpen
    THEN [d EXCEPT !.juceCallback = callback,
                   !.vm = IF dllLoaded THEN VBVMR_AudioCallbackStart(@, startResult) ELSE @,
                   !.devicePlaying = TRUE]
    ELSE d

\* history record of the deferred work: op is "post" (the handler posted a task) or "run"
\* (a posted task ran), kind the command, thread where it happened, invoked the callback
\* that received audioDeviceAboutToStart, restarted whether VBVMR_AudioCallbackStart was
\* called, touched the members of the device that were read or written
Deferred(op, kind, thread, invoked, restarted, touched) ==
    [op |-> op, kind |-> kind, thread |-> thread, invoked |-> invoked,
     restarted |-> restarted, touched |-> touched]

\* state of a device just constructed, before any call
DeviceConstructed ==
    /\ deviceOpen = FALSE
    /\ devicePlaying = FALSE
    /\ loggedIn = FALSE
    /\ callbackRegistered = FALSE
    /\ juceCallback = nullptr
    /\ activeChannels = 0
    /\ vm = [session |-> FALSE, registered |-> FALSE, streaming |-> FALSE]
    /\ audio = [pc |-> "idle", callback |-> nullptr, invoked |-> nullptr]
    /\ calls = [op |-> "constructed", result |-> Opened, wasPlaying |-> FALSE,
                opened |-> FALSE, startCalled |-> FALSE, startTaken |-> FALSE, stopped |-> {}]
    /\ aliveFlag = TRUE
    /\ destroyed = FALSE
    /\ pending = << >>
    /\ deferred = Deferred("none", "none", "none", nullptr, FALSE, {})

SetDevice(d) ==
    /\ deviceOpen' = d.deviceOpen
    /\ devicePlaying' = d.devicePlaying
    /\ loggedIn' = d.loggedIn
    /\ callbackRegistered' = d.callbackRegistered
    /\ juceCallback' = d.juceCallback
    /\ activeChannels' = d.activeChannels
    /\ vm' = d.vm

\* history of the client's calls: op and result are the call made last and what open()
\* returned; wasPlaying is isPlaying() before it; opened says that the last open()
\* returned the empty string and close() has not been called since; startCalled says that
\* start() has been called and stop() has not run since; startTaken says the same of a
\* start() with a callback on an opened device; stopped holds the callbacks that have
\* received audioDeviceStopped and have not been passed to start() since
Called(op, result, opened, startCalled, startTaken, d) ==
    [op |-> op, result |-> result, wasPlaying |-> devicePlaying, opened |-> opened,
     startCalled |-> startCalled, startTaken |-> startTaken,
     stopped |-> (calls.stopped \cup d.stopped) \ {d.juceCallback}]

\* the client calls open()
Open(channels, loginResult, regResult) ==
    LET r == open(Device, channels, loginResult, regResult)
    IN  /\ SetDevice(r.dev)
        /\ calls' = Called("open", r.result, r.result = Opened, FALSE, FALSE, r.dev)
        /\ UNCHANGED <<dllLoaded, audio, deferVars, appVars>>

\* the client calls close()
Close ==
    LET d == close(Device)
    IN  /\ SetDevice(d)
        /\ calls' = Called("close", Opened, FALSE, FALSE, FALSE, d)
        /\ UNCHANGED <<dllLoaded, audio, deferVars, appVars>>

\* the client calls start(callback)
Start(callback, startResult) ==
    LET d == start(Device, callback, startResult)
    IN  /\ SetDevice(d)
        /\ calls' = Called("start", Opened, calls.opened, TRUE,
                           (callback # nullptr /\ calls.opened) \/ calls.startTaken, d)
        /\ UNCHANGED <<dllLoaded, audio, deferVars, appVars>>

\* the client calls stop()
Stop ==
    LET d == stop(Device)
    IN  /\ SetDevice(d)
        /\ calls' = Called("stop", Opened, calls.opened, FALSE, FALSE, d)
        /\ UNCHANGED <<dllLoaded, audio, deferVars, appVars>>

\* handleVoicemeeterCallback, BUFFER_IN / BUFFER_OUT: the audio thread enters the handler
\* while the stream runs and reads juceCallback
BufferLoad ==
    /\ vm.streaming
    /\ audio.pc = "idle"
    /\ audio' = [pc |-> "loaded", callback |-> juceCallback, invoked |-> nullptr]
    /\ UNCHANGED <<dllLoaded, deviceOpen, devicePlaying, loggedIn, callbackRegistered,
                   juceCallback, activeChannels, vm, calls, deferVars, appVars>>

\* ... and, when the pointer it read is not null, the buffer reaches the device's buses
\* and a channel is active, calls audioDeviceIOCallbackWithContext on it
BufferInvoke(available) ==
    /\ audio.pc = "loaded"
    /\ audio' = [pc |-> "idle", callback |-> nullptr,
                 invoked |-> IF audio.callback # nullptr /\ available /\ activeChannels > 0
                             THEN audio.callback ELSE nullptr]
    /\ UNCHANGED <<dllLoaded, deviceOpen, devicePlaying, loggedIn, callbackRegistered,
                   juceCallback, activeChannels, vm, calls, deferVars, appVars>>

\* callAsync tasks the message queue holds at most
MaxPending == 2

\* the commands whose handling is deferred to the message thread
DeferredCommands == {"STARTING", "CHANGE"}

\* handleVoicemeeterCallback, STARTING / CHANGE: the backend calls the registered handler
\* on its audio thread; the handler copies aliveFlag and posts a task with callAsync
Command(kind) ==
    /\ vm.registered
    /\ ~destroyed
    /\ Len(pending) < MaxPending
    /\ pending' = Append(pending, kind)
    /\ deferred' = Deferred("post", kind, "audio", nullptr, FALSE,
                            IF kind = "STARTING"
                            THEN {"currentSampleRate", "currentBufferSize", "aliveFlag"}
                            ELSE {"aliveFlag"})
    /\ UNCHANGED <<dllLoaded, deviceOpen, devicePlaying, loggedIn, callbackRegistered,
                   juceCallback, activeChannels, vm, audio, calls, aliveFlag, destroyed,
                   appVars>>

\* faulty variant: the posted tasks do not test the flag they captured
TaskRun_NoFlag(kind, startResult) ==
    IF kind = "STARTING"
    THEN /\ deferred' = Deferred("run", kind, "message", juceCallback, FALSE, {"juceCallback"})
         /\ UNCHANGED vm
    ELSE /\ deferred' = Deferred("run", kind, "message", nullptr,
                                 devicePlaying /\ dllLoaded, {"devicePlaying"})
         /\ vm' = IF devicePlaying /\ dllLoaded
                  THEN VBVMR_AudioCallbackStart(vm, startResult) ELSE vm

\* the body of the lambda posted for kind, run on the message thread
TaskRun(kind, startResult) ==
    IF ~aliveFlag
    THEN /\ deferred' = Deferred("run", kind, "message", nullptr, FALSE, {})
         /\ UNCHANGED vm
    ELSE IF kind = "STARTING"
    THEN /\ deferred' = Deferred("run", kind, "message", juceCallback, FALSE, {"juceCallback"})
         /\ UNCHANGED vm
    ELSE /\ deferred' = Deferred("run", kind, "message", nullptr,
                                 devicePlaying /\ dllLoaded, {"devicePlaying"})
         /\ vm' = IF devicePlaying /\ dllLoaded
                  THEN VBVMR_AudioCallbackStart(vm, startResult) ELSE vm

\* the message thread takes the next posted task off its queue and runs it; it does so
\* between two calls of the client, never inside the destructor
RunTask(startResult) ==
    /\ pending # << >>
    /\ aliveFlag \/ destroyed
    /\ pending' = Tail(pending)
    /\ TaskRun(Head(pending), startResult)
    /\ UNCHANGED <<dllLoaded, deviceOpen, devicePlaying, loggedIn, callbackRegistered,
                   juceCallback, activeChannels, audio, calls, aliveFlag, destroyed,
                   appVars>>

\* ~VoicemeeterAudioIODevice, first statement: aliveFlag->store(false)
DestructorStore ==
    /\ aliveFlag
    /\ aliveFlag' = FALSE
    /\ UNCHANGED <<dllLoaded, deviceOpen, devicePlaying, loggedIn, callbackRegistered,
                   juceCallback, activeChannels, vm, audio, calls, destroyed, pending,
                   deferred, appVars>>

\* ~VoicemeeterAudioIODevice, second statement: close(); the object is gone afterwards
DestructorClose ==
    /\ ~aliveFlag /\ ~destroyed
    /\ LET d == close(Device)
       IN  /\ SetDevice(d)
           /\ calls' = Called("destructor", Opened, FALSE, FALSE, FALSE, d)
    /\ destroyed' = TRUE
    /\ UNCHANGED <<dllLoaded, audio, aliveFlag, pending, deferred, appVars>>

\* the client's calls on a device it has not begun to destroy
LiveOpen(channels, loginResult, regResult) == aliveFlag /\ Open(channels, loginResult, regResult)
LiveClose == aliveFlag /\ Close
LiveStart(callback, startResult) == aliveFlag /\ Start(callback, startResult)
LiveStop == aliveFlag /\ Stop

----------------------------------------------------------------------------
(* State after construction on a machine with no saved nodeGraphState *)

\* IconMenu::loadActivePlugins: graph.clear(), then the two fixed I/O nodes
FixedGraphNodes ==
    [u \in {kInputNodeUID, kOutputNodeUID} |-> IF u = kInputNodeUID THEN IOInput ELSE IOOutput]

Init ==
    /\ nodes = << >>
    /\ wires = << >>
    /\ nextId = 1
    /\ selectedNode = -1
    /\ draggingNode = -1
    /\ draggingWire = FALSE
    /\ wireDragFromInput = FALSE
    /\ wireFrom = -1
    /\ buttonDown = FALSE
    /\ menu = None
    /\ graphNodes = FixedGraphNodes
    /\ graphConns = {}
    /\ lastNodeID = kOutputNodeUID
    /\ launches = 0
    /\ settings = None
    /\ last = Did("IconMenu", -1, -1, 0, 0, {})
    /\ dllLoaded = TRUE
    /\ DeviceConstructed

----------------------------------------------------------------------------
(* Handlers *)

\* No button is held and no popup menu is up: the dialogs, the picker, the canvas and the
\* tray menu take a new click only then (the mouse source ends a drag with mouseUp before
\* any new mouseDown, and an open popup menu is modal)
Idle == ~buttonDown /\ menu = None

\* the outcomes a relaunch can meet: one per persisted node, "ok" for a lane node
LoadOutcomes ==
    IF settings = None THEN {[i \in {} |-> "ok"]}
    ELSE {f \in [Indices(settings[1].Nodes) -> Outcomes] :
             \A i \in Indices(settings[1].Nodes) :
                 settings[1].Nodes[i].plugin = None => f[i] = "ok"}

\* the ids of the Plugin nodes of a document that a load with these outcomes fails to
\* instantiate
FailedIds(doc, outcomes) ==
    {getIntValue(doc.Nodes[i].id) :
        i \in {j \in Indices(doc.Nodes) :
                  /\ IntToType(getIntValue(doc.Nodes[j].type)) = "Plugin"
                  /\ ~Instantiates(doc.Nodes[j], outcomes[j])}}

\* faulty variant: the notification is fired before the handler updates the canvas
Persist_BeforeUpdate == settings' = Some(saveState(nodes, wires, graphNodes))

\* faulty variant: the notification is not bound to any saving
Persist_Never == UNCHANGED settings

\* IconMenu's onGraphChanged: saveState into the user settings
Persist == settings' = Some(saveState(nodes', wires', graphNodes'))

\* position addNode gives a lane node
LanePos(ns, type) ==
    IF type = "Input" THEN << 0, kHdrH + 6 + CountType(ns, "Input") * (kSideH + 6) >>
    ELSE << Width - kZoneW, kHdrH + 6 + CountType(ns, "Output") * (kSideH + 6) >>

\* faulty variant: the two lanes' engine identities are exchanged
laneGraphNodeId_Swapped(type) == IF type = "Input" THEN kOutputNodeUID ELSE kInputNodeUID

\* the fixed engine node addNode binds a lane node to
laneGraphNodeId(type) == IF type = "Input" THEN kInputNodeUID ELSE kOutputNodeUID

\* NodeGraphCanvas::addNode, called by the device dialogs with Input or Output
AddNode(name, type) ==
    /\ nextId <= MaxId
    /\ Idle
    /\ nodes' = Append(nodes, [ id |-> nextId, type |-> type, name |-> name,
                                pos |-> LanePos(nodes, type),
                                graphNodeId |-> laneGraphNodeId(type) ])
    /\ nextId' = nextId + 1
    /\ UNCHANGED <<wires, selectedNode, dragVars, buttonDown, menu, graphVars, launches, deviceVars>>
    /\ Persist
    /\ last' = Did("addNode", nextId, -1, 1, 0, {})

\* default position of a picked plugin: centred, stacked by the number of plugins
PickerPos(ns) ==
    << (Width - kZoneW * 2) \div 2 + kZoneW - kW \div 2,
       60 + CountType(ns, "Plugin") * (kH + 20) >>

\* the callback of showPluginPicker's menu, for a result that names a known type
PluginPicked(result, outcome) ==
    /\ nextId <= MaxId
    /\ Idle
    /\ UNCHANGED <<launches, deviceVars>>
    /\ LET desc == KnownPlugins[result]
           uid  == lastNodeID + 1
       IN IF ~CanInstantiate(desc, outcome) \/ outcome = "noNode"
          THEN /\ UNCHANGED <<canvasVars, selectedNode, dragVars, buttonDown, menu,
                            graphVars, settings>>
               /\ last' = Did("pluginFailed", result, -1, 0, 0, {})
          ELSE /\ graphNodes' = graphAddNode(graphNodes, uid,
                                    [kind |-> "plugin", desc |-> Some(desc),
                                     state |-> DefaultState])
               /\ lastNodeID' = uid
               /\ nodes' = Append(nodes, [ id |-> nextId, type |-> "Plugin",
                                           name |-> desc.name, pos |-> PickerPos(nodes),
                                           graphNodeId |-> uid ])
               /\ nextId' = nextId + 1
               /\ UNCHANGED <<wires, selectedNode, dragVars, buttonDown, menu, graphConns>>
               /\ Persist
               \* graph.addNode is the callback's only engine call: no graph.rebuild()
               \* follows it
               /\ last' = [Did("addPlugin", nextId, -1, 1, 0, {}) EXCEPT !.unbuilt = 1]

\* the user changes a plugin's parameters in its editor window (openPluginEditor)
PluginEdited(uid, state) ==
    /\ uid \in DOMAIN graphNodes
    /\ graphNodes[uid].kind = "plugin"
    /\ graphNodes[uid].state # state
    /\ graphNodes' = [graphNodes EXCEPT ![uid].state = state]
    /\ Idle
    /\ UNCHANGED <<canvasVars, selectedNode, dragVars, buttonDown, menu, graphConns,
                   lastNodeID, launches, deviceVars, settings>>
    /\ last' = Did("pluginEdited", -1, -1, 0, 0, {})

\* faulty variant: a press on a node of any kind prepares a drag
IsPluginNode_Any(ns, id) == HasNode(ns, id)

\* "nd.id == selectedNode && nd.type == NodeType::Plugin" holds for some node
IsPluginNode(ns, id) == \E i \in Indices(ns) : ns[i].id = id /\ ns[i].type = "Plugin"

\* NodeGraphCanvas::mouseDown
MouseDown(p, right) ==
    /\ Idle
    /\ buttonDown' = TRUE
    /\ selectedNode' = nodeAtPoint(nodes, p)
    /\ UNCHANGED <<canvasVars, graphVars, launches, deviceVars, settings>>
    /\ IF right
       THEN /\ menu' = IF nodeAtPoint(nodes, p) >= 0 THEN Some(nodeAtPoint(nodes, p)) ELSE None
            /\ UNCHANGED dragVars
       ELSE /\ UNCHANGED menu
            /\ IF nearOutputPort(nodes, p) # -1
               THEN /\ draggingWire' = TRUE
                    /\ wireDragFromInput' = FALSE
                    /\ wireFrom' = nearOutputPort(nodes, p)
                    /\ draggingNode' = -1
               ELSE IF nearInputPort(nodes, p) # -1
               THEN /\ draggingWire' = TRUE
                    /\ wireDragFromInput' = TRUE
                    /\ wireFrom' = nearInputPort(nodes, p)
                    /\ draggingNode' = -1
               ELSE /\ draggingNode' = IF nodeAtPoint(nodes, p) >= 0
                                          /\ IsPluginNode(nodes, nodeAtPoint(nodes, p))
                                       THEN nodeAtPoint(nodes, p) ELSE draggingNode
                    /\ draggingWire' = FALSE
                    /\ UNCHANGED <<wireDragFromInput, wireFrom>>
    /\ last' = Did("mouseDown", nodeAtPoint(nodes, p), -1, 0, 0, {})

\* the position mouseDrag clamps the dragged node to
DragPos(p) ==
    << Max(kZoneW, Min(Width - kZoneW - kW, p[1] - kW \div 2)),
       Max(0, Min(Height - kH, p[2] - kH \div 2)) >>

FirstIndex(ns, id) ==
    CHOOSE i \in Indices(ns) : ns[i].id = id /\ \A j \in Indices(ns) : ns[j].id = id => i <= j

\* NodeGraphCanvas::mouseDrag
MouseDrag(p) ==
    /\ buttonDown
    /\ UNCHANGED <<wires, nextId, selectedNode, dragVars, buttonDown, menu, graphVars,
                   launches, deviceVars>>
    /\ IF ~draggingWire /\ draggingNode >= 0 /\ HasNode(nodes, draggingNode)
          /\ FindFirst(nodes, draggingNode).pos # DragPos(p)
       THEN /\ nodes' = [nodes EXCEPT ![FirstIndex(nodes, draggingNode)].pos = DragPos(p)]
            /\ Persist
            /\ last' = Did("reposition", draggingNode, -1, 1, 0, {})
       ELSE /\ UNCHANGED <<nodes, settings>>
            /\ last' = Did("mouseDrag", -1, -1, 0, 0, {})


\* the body both branches of mouseUp share once from/to are resolved
Connect(fromId, toId) ==
    LET frNode == FindLast(nodes, fromId)
        toNode == FindLast(nodes, toId)
        cleared == clearGraphInputConnections(nodes, wires, graphConns, toNode)
    IN /\ graphConns' = addGraphConnection(graphNodes, cleared, frNode, toNode)
       /\ wires' = Append(clearInputWires(wires, toNode),
                          [fromNode |-> fromId, toNode |-> toId])
       /\ UNCHANGED <<nodes, nextId, graphNodes, lastNodeID>>
       /\ Persist
       /\ last' = Did("connect", fromId, toId, 1,
                      Cardinality(IncomingFound(nodes, wires, toNode))
                        + addGraphConnectionRebuilds(graphNodes, frNode, toNode),
                      {wires[i].fromNode : i \in {j \in Indices(wires) : wires[j].toNode = toId}})

\* the (from, to) pair a release at p asks for, or <<-1, -1>> when the drag misses
DropPair(p) ==
    IF ~(draggingWire /\ wireFrom >= 0) THEN << -1, -1 >>
    ELSE IF ~wireDragFromInput
         THEN IF nearInputPort(nodes, p) # -1 /\ isValidWire(nodes, wireFrom, nearInputPort(nodes, p))
              THEN << wireFrom, nearInputPort(nodes, p) >> ELSE << -1, -1 >>
         ELSE IF nearOutputPort(nodes, p) # -1 /\ isValidWire(nodes, nearOutputPort(nodes, p), wireFrom)
              THEN << nearOutputPort(nodes, p), wireFrom >> ELSE << -1, -1 >>

\* faulty variant: a release that connects nothing returns before the drag state is reset
MouseUp_KeepsDrag(p) ==
    /\ buttonDown
    /\ buttonDown' = FALSE
    /\ UNCHANGED <<selectedNode, menu, launches, deviceVars>>
    /\ IF DropPair(p) # << -1, -1 >>
       THEN /\ draggingWire' = FALSE
            /\ wireDragFromInput' = FALSE
            /\ wireFrom' = -1
            /\ draggingNode' = -1
            /\ Connect(DropPair(p)[1], DropPair(p)[2])
       ELSE /\ UNCHANGED <<canvasVars, dragVars, graphVars, settings>>
            /\ last' = Did("mouseUp", IF draggingWire THEN wireFrom ELSE -1, -1, 0, 0, {})

\* NodeGraphCanvas::mouseUp
MouseUp(p) ==
    /\ buttonDown
    /\ buttonDown' = FALSE
    /\ draggingWire' = FALSE
    /\ wireDragFromInput' = FALSE
    /\ wireFrom' = -1
    /\ draggingNode' = -1
    /\ UNCHANGED <<selectedNode, menu, launches, deviceVars>>
    /\ IF DropPair(p) # << -1, -1 >>
       THEN Connect(DropPair(p)[1], DropPair(p)[2])
       ELSE /\ UNCHANGED <<canvasVars, graphVars, settings>>
            /\ last' = Did("mouseUp", IF draggingWire THEN wireFrom ELSE -1, -1, 0, 0, {})

\* faulty variant: only the outgoing wires of the removed node are erased
removeNodeWires_OutgoingOnly(ws, nodeId) == SelectSeq(ws, LAMBDA w : w.fromNode # nodeId)

\* removeNode: erase / remove_if over the wire list
removeNodeWires(ws, nodeId) ==
    SelectSeq(ws, LAMBDA w : ~(w.fromNode = nodeId \/ w.toNode = nodeId))

\* the nodes at the other end of the wires that touch nodeId
WireEnds(ws, nodeId) ==
    {ws[i].fromNode : i \in {j \in Indices(ws) : ws[j].toNode = nodeId}}
      \cup {ws[i].toNode : i \in {j \in Indices(ws) : ws[j].fromNode = nodeId}}

\* faulty variant: removeNode leaves the selection as it is
removeNode_KeepsSelection(nodeId) ==
    IF ~HasNode(nodes, nodeId)
    THEN /\ UNCHANGED <<canvasVars, selectedNode, graphVars, settings>>
         /\ last' = Did("removeMissing", nodeId, -1, 0, 0, {})
    ELSE LET nd == FindFirst(nodes, nodeId)
             inGraph == nd.graphNodeId # 0 /\ HasGraphNode(graphNodes, nd.graphNodeId)
         IN /\ graphNodes' = IF inGraph THEN graphRemoveNode(graphNodes, nd.graphNodeId)
                             ELSE graphNodes
            /\ graphConns' = IF inGraph THEN graphDisconnectNode(graphConns, nd.graphNodeId)
                             ELSE graphConns
            /\ nodes' = SelectSeq(nodes, LAMBDA n : n.id # nodeId)
            /\ wires' = removeNodeWires(wires, nodeId)
            /\ UNCHANGED <<nextId, lastNodeID, selectedNode>>
            /\ Persist
            /\ last' = Did("removeNode", nodeId, nd.graphNodeId, 1, 1,
                           WireEnds(wires, nodeId))

\* NodeGraphCanvas::removeNode
removeNode(nodeId) ==
    IF ~HasNode(nodes, nodeId)
    THEN /\ UNCHANGED <<canvasVars, selectedNode, graphVars, settings>>
         /\ last' = Did("removeMissing", nodeId, -1, 0, 0, {})
    ELSE LET nd == FindFirst(nodes, nodeId)
             inGraph == nd.graphNodeId # 0 /\ HasGraphNode(graphNodes, nd.graphNodeId)
         IN /\ graphNodes' = IF inGraph THEN graphRemoveNode(graphNodes, nd.graphNodeId)
                             ELSE graphNodes
            /\ graphConns' = IF inGraph THEN graphDisconnectNode(graphConns, nd.graphNodeId)
                             ELSE graphConns
            /\ nodes' = SelectSeq(nodes, LAMBDA n : n.id # nodeId)
            /\ wires' = removeNodeWires(wires, nodeId)
            /\ selectedNode' = -1
            /\ UNCHANGED <<nextId, lastNodeID>>
            /\ Persist
            /\ last' = Did("removeNode", nodeId, nd.graphNodeId, 1, 1,
                           WireEnds(wires, nodeId))

\* NodeGraphCanvas::disconnectNode
disconnectNode(nodeId) ==
    /\ graphConns' = disconnectNodeConns(nodes, wires, graphConns, nodeId)
    /\ wires' = disconnectNodeWires(wires, nodeId)
    /\ UNCHANGED <<nodes, nextId, selectedNode, graphNodes, lastNodeID>>
    /\ Persist
    /\ last' = Did("disconnectNode", nodeId, -1, 1,
                   Cardinality(TouchingFound(nodes, wires, nodeId)) + 1,
                   WireEnds(wires, nodeId))

\* NodeGraphCanvas::keyPressed with the Delete key
KeyPressed ==
    /\ menu = None
    /\ UNCHANGED <<dragVars, buttonDown, menu, launches, deviceVars>>
    /\ IF selectedNode >= 0
       THEN removeNode(selectedNode)
       ELSE /\ UNCHANGED <<canvasVars, selectedNode, graphVars, settings>>
            /\ last' = Did("keyPressed", -1, -1, 0, 0, {})

\* the callback of a node's context menu: 2 = Disconnect All Wires, 3 = Delete;
\* 1 opens a dialog or the picker, 0 is a dismissed menu
MenuResult(result) ==
    /\ menu # None
    /\ ~buttonDown
    /\ menu' = None
    /\ UNCHANGED <<dragVars, buttonDown, launches, deviceVars>>
    /\ IF result = 2 THEN disconnectNode(menu[1])
       ELSE IF result = 3 THEN removeNode(menu[1])
       ELSE /\ UNCHANGED <<canvasVars, selectedNode, graphVars, settings>>
            /\ last' = Did("menuDismissed", -1, -1, 0, 0, {})

\* The application quits and is started again: IconMenu's constructor runs
\* loadActivePlugins on a new graph and then loadState on the saved document.
Relaunch(outcomes) ==
    /\ Idle
    /\ launches < MaxLaunches
    /\ launches' = launches + 1
    /\ UNCHANGED deviceVars
    /\ outcomes \in LoadOutcomes
    /\ UNCHANGED buttonDown
    /\ selectedNode' = -1
    /\ draggingNode' = -1
    /\ draggingWire' = FALSE
    /\ wireDragFromInput' = FALSE
    /\ wireFrom' = -1
    /\ menu' = None
    /\ UNCHANGED settings
    /\ IF settings = None
       THEN /\ nodes' = << >> /\ wires' = << >> /\ nextId' = 1
            /\ graphNodes' = FixedGraphNodes /\ graphConns' = {}
            /\ lastNodeID' = kOutputNodeUID
            /\ last' = Did("IconMenu", -1, -1, 0, 0, {})
       ELSE LET r == loadState(settings[1], outcomes, 1, FixedGraphNodes, {}, kOutputNodeUID)
            IN /\ nodes' = r.nodes /\ wires' = r.wires /\ nextId' = r.nextId
               /\ graphNodes' = r.graphNodes /\ graphConns' = r.graphConns
               /\ lastNodeID' = r.lastNodeID
               /\ last' = Did("loadState", -1, -1, 0, r.rebuilds,
                              FailedIds(settings[1], outcomes))

----------------------------------------------------------------------------

\* one session of the application: the handlers of the canvas
Next ==
    \/ \E name \in DeviceNames, type \in {"Input", "Output"} : AddNode(name, type)
    \/ \E result \in Indices(KnownPlugins), outcome \in Outcomes : PluginPicked(result, outcome)
    \/ \E p \in MousePoints, right \in BOOLEAN : MouseDown(p, right)
    \/ \E p \in DragPoints : MouseDrag(p)
    \/ \E p \in MousePoints : MouseUp(p)
    \/ KeyPressed
    \/ \E result \in 0..3 : MenuResult(result)

Spec == Init /\ [][Next]_vars

\* addNode and the picker callback in the sessions followed across a relaunch
SessionAddNode(name, type) == nextId <= MaxSessionId /\ AddNode(name, type)
SessionPluginPicked(result, outcome) == nextId <= MaxSessionId /\ PluginPicked(result, outcome)

\* sessions: the canvas handlers, plugin editors, and quitting and starting again
NextSession ==
    \/ \E name \in DeviceNames, type \in {"Input", "Output"} : SessionAddNode(name, type)
    \/ \E result \in Indices(KnownPlugins), outcome \in Outcomes :
          SessionPluginPicked(result, outcome)
    \/ \E uid \in DOMAIN graphNodes, state \in PluginStates : PluginEdited(uid, state)
    \/ \E p \in MousePoints, right \in BOOLEAN : MouseDown(p, right)
    \/ \E p \in DragPoints : MouseDrag(p)
    \/ \E p \in MousePoints : MouseUp(p)
    \/ KeyPressed
    \/ \E result \in 0..3 : MenuResult(result)
    \/ \E outcomes \in LoadOutcomes : Relaunch(outcomes)

SpecSession == Init /\ [][NextSession]_vars

\* a Node element as loadState reads it: node i of type t, a Plugin one naming the known
\* plugin
DocNode(i, t) ==
    [ id   |-> IntToString(i),
      type |-> IntToString(TypeToInt(t)),
      name |-> IF t = "Plugin" THEN KnownPlugins[1].name ELSE "Device",
      x    |-> IntToString(200),
      y    |-> IntToString(100),
      plugin |->
        IF t = "Plugin"
        THEN Some([ pluginName             |-> KnownPlugins[1].name,
                    pluginFormat           |-> KnownPlugins[1].pluginFormatName,
                    pluginFileOrIdentifier |-> KnownPlugins[1].fileOrIdentifier,
                    PluginState            |-> toBase64Encoding(DefaultState) ])
        ELSE None ]

\* the Wire elements a document can hold: from and to name a node of the document or the
\* id after its last node
DocWireSeqs ==
    UNION { [1..k -> {[from |-> IntToString(f), to |-> IntToString(t)]
                       : f, t \in 1..(MaxDocNodes + 1)}]
            : k \in 0..MaxDocWires }

\* the nodeGraphState documents the settings file can hold at startup: Node elements with
\* ids 1..n of any types, and any Wire elements; and the documents that lack the Wires
\* element or the Nodes element
Documents ==
    UNION { { [ hasNodes |-> TRUE, Nodes |-> [i \in 1..n |-> DocNode(i, ts[i])],
                hasWires |-> TRUE, Wires |-> ws ]
              : ts \in [1..n -> NodeTypes], ws \in DocWireSeqs }
            : n \in 0..MaxDocNodes }
      \cup UNION { { [ hasNodes |-> TRUE, Nodes |-> [i \in 1..n |-> DocNode(i, ts[i])],
                       hasWires |-> FALSE, Wires |-> << >> ]
                     : ts \in [1..n -> NodeTypes] }
                   : n \in 0..MaxDocNodes }
      \cup { [ hasNodes |-> FALSE, Nodes |-> << >>, hasWires |-> hw, Wires |-> ws ]
             : hw \in BOOLEAN, ws \in {w \in DocWireSeqs : Len(w) <= 1} }

\* the application about to start on a settings file that holds any such document
InitLoad ==
    /\ nodes = << >>
    /\ wires = << >>
    /\ nextId = 1
    /\ selectedNode = -1
    /\ draggingNode = -1
    /\ draggingWire = FALSE
    /\ wireDragFromInput = FALSE
    /\ wireFrom = -1
    /\ buttonDown = FALSE
    /\ menu = None
    /\ graphNodes = FixedGraphNodes
    /\ graphConns = {}
    /\ lastNodeID = kOutputNodeUID
    /\ launches = 0
    /\ settings \in {Some(doc) : doc \in Documents}
    /\ last = Did("IconMenu", -1, -1, 0, 0, {})
    /\ dllLoaded = TRUE
    /\ DeviceConstructed

\* startup on such a file: IconMenu's constructor runs loadState on the document
NextLoad == \E outcomes \in LoadOutcomes : Relaunch(outcomes)

SpecLoad == InitLoad /\ [][NextLoad]_vars

----------------------------------------------------------------------------
(* The two engine helpers on their own: addGraphConnection and             *)
(* removeGraphConnection applied to any pair of nodes on any connection    *)
(* set of an engine that holds the fixed nodes, a stereo and a mono plugin *)

MonoPlugin ==
    [name |-> "Gate", pluginFormatName |-> "VST3", fileOrIdentifier |-> "gate.vst3",
     channels |-> 1]

EngineNodes ==
    [u \in {kInputNodeUID, kOutputNodeUID, kOutputNodeUID + 1, kOutputNodeUID + 2} |->
        IF u = kInputNodeUID THEN IOInput
        ELSE IF u = kOutputNodeUID THEN IOOutput
        ELSE [kind |-> "plugin",
              desc |-> Some(IF u = kOutputNodeUID + 1 THEN KnownPlugins[1] ELSE MonoPlugin),
              state |-> DefaultState]]

\* every connection the engine accepts between two of these nodes on the same channel
EngineConns ==
    {c \in {Conn(e1, e2, ch) : e1 \in DOMAIN EngineNodes, e2 \in DOMAIN EngineNodes,
                               ch \in {0, 1}} : canConnect(EngineNodes, {}, c)}

\* the canvas nodes the helpers are called with: bound to an engine node, or to none
\* (graphNodeId 0, a plugin that failed to load)
EngineEnds == {[graphNodeId |-> e] : e \in DOMAIN EngineNodes \cup {0}}

\* the channels on which graph.addConnection refuses the route from -> to
Refused(gn, conns, from, to) ==
    {ch \in {0, 1} : ~canConnect(gn, conns, Conn(from.graphNodeId, to.graphNodeId, ch))}

InitEngine ==
    /\ nodes = << >>
    /\ wires = << >>
    /\ nextId = 1
    /\ selectedNode = -1
    /\ draggingNode = -1
    /\ draggingWire = FALSE
    /\ wireDragFromInput = FALSE
    /\ wireFrom = -1
    /\ buttonDown = FALSE
    /\ menu = None
    /\ graphNodes = EngineNodes
    /\ graphConns \in SUBSET EngineConns
    /\ lastNodeID = kOutputNodeUID + 2
    /\ launches = 0
    /\ settings = None
    /\ last = Did("IconMenu", -1, -1, 0, 0, {})
    /\ dllLoaded = TRUE
    /\ DeviceConstructed

\* NodeGraphCanvas::addGraphConnection; the history keeps the two engine ids, the
\* graph.rebuild calls and the channels whose route was refused
AddGraphConnection(from, to) ==
    /\ graphConns' = addGraphConnection(graphNodes, graphConns, from, to)
    /\ last' = Did("addGraphConnection", from.graphNodeId, to.graphNodeId, 0,
                   addGraphConnectionRebuilds(graphNodes, from, to),
                   Refused(graphNodes, graphConns, from, to))
    /\ UNCHANGED <<canvasVars, selectedNode, dragVars, buttonDown, menu, graphNodes,
                   lastNodeID, launches, settings, deviceVars>>

\* NodeGraphCanvas::removeGraphConnection
RemoveGraphConnection(from, to) ==
    /\ graphConns' = removeGraphConnection(graphConns, from, to)
    /\ last' = Did("removeGraphConnection", from.graphNodeId, to.graphNodeId, 0, 1,
                   {ch \in {0, 1} :
                       Conn(from.graphNodeId, to.graphNodeId, ch) \notin graphConns})
    /\ UNCHANGED <<canvasVars, selectedNode, dragVars, buttonDown, menu, graphNodes,
                   lastNodeID, launches, settings, deviceVars>>

NextEngine ==
    \/ \E from \in EngineEnds, to \in EngineEnds : AddGraphConnection(from, to)
    \/ \E from \in EngineEnds, to \in EngineEnds : RemoveGraphConnection(from, to)

SpecEngine == InitEngine /\ [][NextEngine]_vars

----------------------------------------------------------------------------
(* The Nodes loop of loadState on its own: persisted Plugin nodes restored  *)
(* against any known-plugin list                                            *)

\* a second descriptor for the file of KnownPlugins[1], in a format no manager knows
ReverbVST ==
    [name |-> "Reverb (VST)", pluginFormatName |-> "VST",
     fileOrIdentifier |-> "reverb.vst3", channels |-> 2]

\* the lists knownPlugins.getTypes() can answer: empty, the application's, and two with
\* both descriptors of the same file in either order
KnownLists ==
    << << >>, KnownPlugins, << KnownPlugins[1], ReverbVST >>, << ReverbVST, KnownPlugins[1] >> >>

PersistedPlugin(i, pluginName, formatName, identifier) ==
    [ id   |-> IntToString(i),
      type |-> IntToString(TypeToInt("Plugin")),
      name |-> pluginName,
      x    |-> IntToString(200),
      y    |-> IntToString(100),
      plugin |-> Some([ pluginName             |-> pluginName,
                        pluginFormat           |-> formatName,
                        pluginFileOrIdentifier |-> identifier,
                        PluginState            |-> toBase64Encoding(EditedState) ]) ]

\* the Plugin Node elements: the known file, a file no list holds in a known format, and
\* the same in an unknown format
PersistedNodes ==
    << PersistedPlugin(1, "Reverb", "VST3", "reverb.vst3"),
       PersistedPlugin(2, "Delay", "VST3", "delay.vst3"),
       PersistedPlugin(3, "Chorus", "LADSPA", "chorus.so") >>

\* one iteration of the Nodes loop on Node element x with known list k; the history
\* keeps the two and what createPluginInstance / graph.addNode answered
RestoreNode(k, x, outcome) ==
    /\ Len(nodes) < MaxDocNodes
    /\ LET r == loadNodeWith(KnownLists[k], PersistedNodes[x], outcome,
                             [nodes |-> nodes, nextId |-> nextId,
                              graphNodes |-> graphNodes, lastNodeID |-> lastNodeID])
       IN /\ nodes' = r.nodes
          /\ nextId' = r.nextId
          /\ graphNodes' = r.graphNodes
          /\ lastNodeID' = r.lastNodeID
    /\ last' = Did("restorePlugin", k, x, 0, 0, {outcome})
    /\ UNCHANGED <<wires, selectedNode, dragVars, buttonDown, menu, graphConns, launches,
                   settings, deviceVars>>

NextRestore ==
    \E k \in Indices(KnownLists), x \in Indices(PersistedNodes), outcome \in Outcomes :
        RestoreNode(k, x, outcome)

SpecRestore == Init /\ [][NextRestore]_vars

----------------------------------------------------------------------------
(* The Voicemeeter device on its own: the canvas stays as constructed *)

InitDevice ==
    /\ nodes = << >>
    /\ wires = << >>
    /\ nextId = 1
    /\ selectedNode = -1
    /\ draggingNode = -1
    /\ draggingWire = FALSE
    /\ wireDragFromInput = FALSE
    /\ wireFrom = -1
    /\ buttonDown = FALSE
    /\ menu = None
    /\ graphNodes = FixedGraphNodes
    /\ graphConns = {}
    /\ lastNodeID = kOutputNodeUID
    /\ launches = 0
    /\ settings = None
    /\ last = Did("IconMenu", -1, -1, 0, 0, {})
    /\ dllLoaded \in BOOLEAN
    /\ DeviceConstructed

\* any sequence of client calls, interleaved with the audio thread's buffer handling
NextDevice ==
    \/ \E channels \in ChannelCounts, loginResult \in LoginResults,
          regResult \in RegisterResults : Open(channels, loginResult, regResult)
    \/ Close
    \/ \E callback \in Callbacks \cup {nullptr}, startResult \in StartResults :
          Start(callback, startResult)
    \/ Stop
    \/ BufferLoad
    \/ \E available \in BOOLEAN : BufferInvoke(available)

SpecDevice == InitDevice /\ [][NextDevice]_vars

\* the device from construction to destruction: the client's calls and the posted tasks on
\* the message thread, the backend's STARTING and CHANGE commands on the audio thread
NextDeferred ==
    \/ \E channels \in ChannelCounts, loginResult \in LoginResults,
          regResult \in RegisterResults : LiveOpen(channels, loginResult, regResult)
    \/ LiveClose
    \/ \E callback \in Callbacks \cup {nullptr}, startResult \in StartResults :
          LiveStart(callback, startResult)
    \/ LiveStop
    \/ \E kind \in DeferredCommands : Command(kind)
    \/ \E startResult \in StartResults : RunTask(startResult)
    \/ DestructorStore
    \/ DestructorClose

SpecDeferred == InitDevice /\ [][NextDeferred]_vars

----------------------------------------------------------------------------
(* Properties *)

NodeIds == {nodes[i].id : i \in Indices(nodes)}
Wire(f, t) == [fromNode |-> f, toNode |-> t]
WireSet == {wires[i] : i \in Indices(wires)}
\* the wires into node id, as indices of the wire list
WiresInto(id) == {i \in Indices(wires) : wires[i].toNode = id}
\* the engine node a canvas node is bound to
EngineOf(id) == FindLast(nodes, id).graphNodeId
KindOf(id) == FindLast(nodes, id).type

\* C1: for every node N the wire list holds at most one wire whose destination is N,
\* in every state the canvas handlers reach from an empty canvas.
C1_SingleInput == \A id \in NodeIds : Cardinality(WiresInto(id)) <= 1

\* a connect has just superseded an earlier wire into the same node
C1_Witness ==
    /\ last.op = "connect"
    /\ last.others # {}
    /\ Cardinality(WiresInto(last.b)) = 1

\* C2: the engine holds a link E1 -> E2 exactly when the wire list holds a wire (a, b)
\* with engineNodeId(a) = E1 and engineNodeId(b) = E2.
C2_EngineMatchesWires ==
    \A e1, e2 \in DOMAIN graphNodes \cup {nodes[i].graphNodeId : i \in Indices(nodes)} :
        Linked(graphConns, e1, e2)
          <=> \E i \in Indices(wires) :
                 /\ HasNode(nodes, wires[i].fromNode) /\ HasNode(nodes, wires[i].toNode)
                 /\ EngineOf(wires[i].fromNode) = e1
                 /\ EngineOf(wires[i].toNode) = e2

\* C3: the two fixed engine nodes (1000000 and 1000001) are in the engine in every
\* reachable state.
C3_FixedNodesPresent ==
    HasGraphNode(graphNodes, kInputNodeUID) /\ HasGraphNode(graphNodes, kOutputNodeUID)

\* C4 as claimed: a connect (C, B) made while a wire (A, B) with A # C is in the list
\* leaves exactly the wire (C, B) into B, and the engine no longer links A's engine node
\* to B's engine node.
C4_SupersessionAsClaimed ==
    [][ \A A \in NodeIds :
          (last'.op = "connect" /\ A # last'.a /\ Wire(A, last'.b) \in WireSet)
            => /\ {wires'[i] : i \in {j \in Indices(wires') : wires'[j].toNode = last'.b}}
                    = {Wire(last'.a, last'.b)}
               /\ Cardinality({j \in Indices(wires') : wires'[j].toNode = last'.b}) = 1
               /\ ~Linked(graphConns', EngineOf(A), EngineOf(last'.b)) ]_vars

\* C4 amended: as above, and the engine no longer links A's engine node to B's engine
\* node whenever A and C are bound to different engine nodes (two Input nodes share the
\* fixed input node, so the link of (C, B) is then the link (A, B) had).
C4_Supersession ==
    [][ \A A \in NodeIds :
          (last'.op = "connect" /\ A # last'.a /\ Wire(A, last'.b) \in WireSet)
            => /\ {wires'[i] : i \in {j \in Indices(wires') : wires'[j].toNode = last'.b}}
                    = {Wire(last'.a, last'.b)}
               /\ Cardinality({j \in Indices(wires') : wires'[j].toNode = last'.b}) = 1
               /\ (EngineOf(A) # EngineOf(last'.a)
                     => ~Linked(graphConns', EngineOf(A), EngineOf(last'.b))) ]_vars

\* connect (C, B) has just superseded the wire (A, B) of a node A bound to another
\* engine node than C, and the engine links C to B
C4_Witness ==
    /\ last.op = "connect"
    /\ \E A \in last.others \cap NodeIds :
          /\ A # last.a
          /\ EngineOf(A) # EngineOf(last.a)
    /\ Linked(graphConns, EngineOf(last.a), EngineOf(last.b))

\* C5: after removeNode(X) of an existing node the wire list holds no wire from or to X
\* and the engine holds no connection from or to the engine id X was bound to.
C5_CascadeOnDelete ==
    last.op = "removeNode"
      => /\ \A i \in Indices(wires) : wires[i].fromNode # last.a /\ wires[i].toNode # last.a
         /\ \A c \in graphConns : c[1] # last.b /\ c[3] # last.b

\* a node that had wires, bound to an engine node, has just been removed
C5_Witness ==
    /\ last.op = "removeNode"
    /\ last.others # {}
    /\ last.b # 0

\* the wire-validity predicate of the data model
WireValid(f, t) ==
    /\ f # t
    /\ f \in NodeIds /\ t \in NodeIds
    /\ KindOf(f) # "Output"
    /\ KindOf(t) # "Input"

\* C6: isValidWire(from, to) is true exactly when from # to, both ids name nodes of the
\* node list, the from node is no Output and the to node is no Input.
C6_CanConnectIsValidity ==
    \A f, t \in -1..(MaxId + 1) : isValidWire(nodes, f, t) <=> WireValid(f, t)

\* nodes of all three kinds are on the canvas and a drag has just been accepted
C6_Witness ==
    /\ last.op = "connect"
    /\ \A k \in NodeTypes : \E i \in Indices(nodes) : nodes[i].type = k

\* C7: every wire (f, t) of the wire list has f # t, both ends in the node list,
\* kind(f) # Output and kind(t) # Input.
C7_WiresValid == \A i \in Indices(wires) : WireValid(wires[i].fromNode, wires[i].toNode)

\* a node with wires has just been removed and a wire is left
C7_Witness ==
    /\ last.op = "removeNode"
    /\ last.others # {}
    /\ wires # << >>

\* the node ids and the wires a document holds, in document order
DocIds(doc) == [i \in Indices(doc.Nodes) |-> getIntValue(doc.Nodes[i].id)]
DocWires(doc) ==
    [i \in Indices(doc.Wires) |->
        Wire(getIntValue(doc.Wires[i].from), getIntValue(doc.Wires[i].to))]

\* C8: after loadState of a document in which one Plugin node cannot be instantiated, the
\* node list holds every other node of the document and not that node, and the wire list
\* holds exactly the document's wires that do not reference that node.
C8_FailedRestoreDropsNode ==
    (last.op = "loadState" /\ Cardinality(last.others) = 1)
      => LET x == CHOOSE y \in last.others : TRUE
             KeepId(id) == id # x
             KeepWire(w) == w.fromNode # x /\ w.toNode # x
         IN /\ [i \in Indices(nodes) |-> nodes[i].id] = SelectSeq(DocIds(settings[1]), KeepId)
            /\ wires = SelectSeq(DocWires(settings[1]), KeepWire)

\* C9: every node of the node list has a non-zero engine node id, in every reachable
\* state, the state after a loadState with a failing plugin included.
C9_EngineIdsValid == \A i \in Indices(nodes) : nodes[i].graphNodeId # 0

\* C10: when the saved document is saveState of the running graph and every plugin is
\* instantiated again, loadState on a new canvas over a graph holding the two fixed nodes
\* gives a node list equal to the original in id, type, name and position, in the same
\* order, an equal wire list, and the same state block for every plugin.
C10_RoundTrip ==
    [][ ( /\ last'.op = "loadState"
          /\ last'.others = {}
          /\ settings = Some(saveState(nodes, wires, graphNodes)) )
        => /\ Len(nodes') = Len(nodes)
           /\ \A i \in Indices(nodes) :
                 /\ nodes'[i].id = nodes[i].id
                 /\ nodes'[i].type = nodes[i].type
                 /\ nodes'[i].name = nodes[i].name
                 /\ nodes'[i].pos = nodes[i].pos
                 /\ nodes[i].type = "Plugin"
                      => /\ HasGraphNode(graphNodes', nodes'[i].graphNodeId)
                         /\ graphNodes'[nodes'[i].graphNodeId].state
                              = graphNodes[nodes[i].graphNodeId].state
           /\ wires' = wires ]_vars

\* a load has just restored a wired plugin whose state block an editor had changed, and
\* the restored graph saves to the document it was loaded from
C10_Witness ==
    /\ last.op = "loadState"
    /\ last.others = {}
    /\ wires # << >>
    /\ \E i \in Indices(nodes) :
          /\ nodes[i].type = "Plugin"
          /\ HasGraphNode(graphNodes, nodes[i].graphNodeId)
          /\ graphNodes[nodes[i].graphNodeId].state = EditedState
    /\ settings = Some(saveState(nodes, wires, graphNodes))

\* C11: a call of the picker callback in which createPluginInstance fails or graph.addNode
\* answers no node leaves the node list, the wire list, nextId, the engine's nodes and
\* connections and the saved document unchanged, and calls onGraphChanged not at all.
C11_AddPluginAllOrNothing ==
    [][ \A result \in Indices(KnownPlugins), outcome \in {"noInstance", "noNode"} :
          PluginPicked(result, outcome)
            => /\ UNCHANGED <<nodes, wires, nextId, graphNodes, graphConns, lastNodeID>>
               /\ UNCHANGED settings
               /\ last'.notified = 0 ]_vars

\* the picker callback has just failed on a canvas that holds a wired plugin
C11_Witness ==
    /\ last.op = "pluginFailed"
    /\ wires # << >>
    /\ \E i \in Indices(nodes) : nodes[i].type = "Plugin"

\* C12: an accepted wire drag (isValidWire holds) one of whose ends is bound to an engine
\* id the engine does not hold has no effect: the wire list and the engine's connections
\* are after the gesture what they were before it.
C12_StaleEngineNoOp ==
    [][ ( /\ last'.op = "connect"
          /\ \/ ~HasGraphNode(graphNodes, EngineOf(last'.a))
             \/ ~HasGraphNode(graphNodes, EngineOf(last'.b)) )
        => /\ wires' = wires
           /\ graphConns' = graphConns ]_vars

\* the graph as connect(A, B) leaves it: (A, B) is the one wire into B, and the engine
\* holds both channel links of the pair when it holds both engine nodes
AsConnected(ns, ws, gn, conns, A, B) ==
    /\ Cardinality({i \in Indices(ws) : ws[i].toNode = B}) = 1
    /\ \E i \in Indices(ws) : ws[i] = Wire(A, B)
    /\ (HasGraphNode(gn, FindLast(ns, A).graphNodeId)
          /\ HasGraphNode(gn, FindLast(ns, B).graphNodeId))
         => \A ch \in {0, 1} :
               Conn(FindLast(ns, A).graphNodeId, FindLast(ns, B).graphNodeId, ch) \in conns

\* C13: every connect(A, B) leaves the graph as above, and a connect(A, B) made on a graph
\* that a connect(A, B) left leaves one entry (A, B) in the wire list, the other wires as
\* they were, and the engine's connection set as it was.
C13_DuplicateConnectIdempotent ==
    [][ last'.op = "connect"
        => /\ AsConnected(nodes', wires', graphNodes', graphConns', last'.a, last'.b)
           /\ AsConnected(nodes, wires, graphNodes, graphConns, last'.a, last'.b)
                => /\ Cardinality({i \in Indices(wires') : wires'[i] = Wire(last'.a, last'.b)}) = 1
                   /\ {wires'[i] : i \in Indices(wires')} = WireSet
                   /\ Len(wires') = Len(wires)
                   /\ graphConns' = graphConns ]_vars

\* the wire a connect has just superseded had the same source, and the engine links the pair
C13_Witness ==
    /\ last.op = "connect"
    /\ last.others = {last.a}
    /\ Linked(graphConns, EngineOf(last.a), EngineOf(last.b))
    /\ Len(wires) >= 2

\* the canvas of the chain scenario: Input 1, Plugin 2, Output 3, and no other node was
\* ever created
ChainNodes ==
    /\ Len(nodes) = 3 /\ nextId = 4
    /\ nodes[1].id = 1 /\ nodes[1].type = "Input"
    /\ nodes[2].id = 2 /\ nodes[2].type = "Plugin"
    /\ nodes[3].id = 3 /\ nodes[3].type = "Output"

\* the two channel links of one wire of the chain
StereoLink(e1, e2) == {Conn(e1, e2, 0), Conn(e1, e2, 1)}

\* C14: on a canvas on which nothing was deleted, the k-th node added gets id k (so Input,
\* Plugin, Output get 1, 2, 3); on that chain connect(1, 2) leaves the wire list <<(1,2)>>
\* and the engine the stereo link of (1,2), and connect(2, 3) after it leaves the wire
\* list <<(1,2), (2,3)>> and the engine exactly the two stereo links; each of the two
\* connects calls graph.rebuild at least once.
C14_ChainScenario ==
    [][ /\ ( /\ last'.op \in {"addNode", "addPlugin"}
             /\ nextId = Len(nodes) + 1 )
          => /\ Len(nodes') = Len(nodes) + 1
             /\ nodes'[Len(nodes')].id = Len(nodes')
        /\ ( /\ ChainNodes /\ wires = << >> /\ graphConns = {}
             /\ last'.op = "connect" /\ last'.a = 1 /\ last'.b = 2 )
          => /\ wires' = << Wire(1, 2) >>
             /\ graphConns' = StereoLink(kInputNodeUID, EngineOf(2))
             /\ last'.rebuilds >= 1
        /\ ( /\ ChainNodes /\ wires = << Wire(1, 2) >>
             /\ graphConns = StereoLink(kInputNodeUID, EngineOf(2))
             /\ last'.op = "connect" /\ last'.a = 2 /\ last'.b = 3 )
          => /\ wires' = << Wire(1, 2), Wire(2, 3) >>
             /\ graphConns' = StereoLink(kInputNodeUID, EngineOf(2))
                                \cup StereoLink(EngineOf(2), kOutputNodeUID)
             /\ Cardinality(graphConns') = 4
             /\ last'.rebuilds >= 1 ]_vars

\* the chain has just been completed by connect(2, 3)
C14_Witness ==
    /\ ChainNodes
    /\ last.op = "connect" /\ last.a = 2 /\ last.b = 3
    /\ wires = << Wire(1, 2), Wire(2, 3) >>
    /\ Cardinality(graphConns) = 4

\* C15: the first id given out is 1; every add gives its node the id nextId, greater than
\* the id of every node in the list, and advances nextId, which never decreases while the
\* application runs; after loadState nextId is
\* greater than every restored id; and the ids of the node list are pairwise distinct and
\* below nextId in every state.
C15_IdFreshness ==
    /\ nextId = 1
    /\ [](\A i, j \in Indices(nodes) : i # j => nodes[i].id # nodes[j].id)
    /\ [](\A i \in Indices(nodes) : nodes[i].id < nextId)
    /\ [][ /\ launches' = launches => nextId' >= nextId
           /\ last'.op \in {"addNode", "addPlugin"}
                => /\ nodes' = Append(nodes, nodes'[Len(nodes')])
                   /\ nodes'[Len(nodes')].id = nextId
                   /\ nextId' = nextId + 1
                   /\ launches = 0 /\ nodes = << >> /\ settings = None
                        => nodes'[Len(nodes')].id = 1 ]_vars

\* a node has just been added to a canvas restored by loadState
C15_Witness ==
    /\ last.op \in {"addNode", "addPlugin"}
    /\ launches = 1
    /\ Len(nodes) = 2

\* the handler calls that commit a change: an Input/Output node added, a plugin added, a
\* wire drag accepted, an existing node deleted, a node moved by a drag step
CommittedOps == {"addNode", "addPlugin", "connect", "removeNode", "reposition"}

\* C16: each committed change calls onGraphChanged exactly once, and the call sees the node
\* list, the wire list and the engine as the handler leaves them (the document it saves
\* is saveState of the state after the handler); but for a repeated connect, a committed
\* change does change the canvas or the engine.
C16_ChangeNotification ==
    [][ last'.op \in CommittedOps
        => /\ last'.notified = 1
           /\ <<nodes', wires', graphNodes', graphConns'>>
                 # <<nodes, wires, graphNodes, graphConns>>
              \/ last'.op = "connect"
           /\ settings' = Some(saveState(nodes', wires', graphNodes')) ]_vars

\* a drag step has just moved a wired plugin node
C16_Witness ==
    /\ last.op = "reposition"
    /\ last.notified = 1
    /\ wires # << >>

\* what a document says of the node list and the wire list: every Node's id, type, name
\* and position, and every Wire
Topology(doc) ==
    [ Nodes |-> [i \in Indices(doc.Nodes) |->
                   [id |-> doc.Nodes[i].id, type |-> doc.Nodes[i].type,
                    name |-> doc.Nodes[i].name, x |-> doc.Nodes[i].x, y |-> doc.Nodes[i].y]],
      Wires |-> doc.Wires ]

\* C17: between handler calls the document stored under nodeGraphState describes the node
\* list and the wire list of the canvas (none is stored only while the canvas was never
\* changed and is empty), and right after a handler that called onGraphChanged it is
\* saveState of the canvas, plugin state blocks included.
C17_PersistenceCurrent ==
    /\ settings = None => nodes = << >> /\ wires = << >>
    /\ settings # None
         => Topology(settings[1]) = Topology(saveState(nodes, wires, graphNodes))
    /\ last.notified = 1 => settings = Some(saveState(nodes, wires, graphNodes))

\* a wire has just been removed by Disconnect All and the saved document holds no wire
C17_Witness ==
    /\ last.op = "disconnectNode"
    /\ last.others # {}
    /\ settings # None
    /\ settings[1].Wires = << >>
    /\ nodes # << >>

\* a release at p ends the wire drag in progress on a port that makes a valid wire with
\* the port the drag started from
DropIsValid(p) ==
    IF wireDragFromInput
    THEN nearOutputPort(nodes, p) # -1 /\ WireValid(nearOutputPort(nodes, p), wireFrom)
    ELSE nearInputPort(nodes, p) # -1 /\ WireValid(wireFrom, nearInputPort(nodes, p))

\* C18: a mouseUp that ends a wire drag on no port, or on a port that makes no valid wire
\* with the drag's origin, leaves the node list, the wire list, the engine and the saved
\* document unchanged and calls onGraphChanged not at all.
C18_InvalidConnectNoEvent ==
    [][ \A p \in MousePoints :
          (MouseUp(p) /\ draggingWire /\ wireFrom >= 0 /\ ~DropIsValid(p))
            => /\ UNCHANGED <<nodes, wires, nextId, graphNodes, graphConns, settings>>
               /\ last'.notified = 0 ]_vars

\* a wire drag has just been discarded on a canvas that holds a wire
C18_Witness ==
    /\ last.op = "mouseUp"
    /\ last.a >= 0
    /\ wires # << >>

\* C19: every handler that changes the engine's nodes or connections calls graph.rebuild
\* after its last engine change and before it returns.
C19_RebuildAfterChange ==
    [][ (graphNodes' # graphNodes \/ graphConns' # graphConns)
        => /\ last'.rebuilds >= 1
           /\ last'.unbuilt = 0 ]_vars

\* C20: after loadState of any document every wire of the wire list satisfies isValidWire
\* against the restored nodes, and no node has more than one wire into it.
C20_LoadReplaysConnect ==
    last.op = "loadState"
      => /\ \A i \in Indices(wires) : isValidWire(nodes, wires[i].fromNode, wires[i].toNode)
         /\ \A id \in NodeIds : Cardinality(WiresInto(id)) <= 1

\* C21: in every document saveState has stored, every Node element of type Plugin carries
\* the plugin's name, format and file/identifier and its state block.
C21_PluginIdentitySaved ==
    settings # None
      => \A i \in Indices(settings[1].Nodes) :
            IntToType(getIntValue(settings[1].Nodes[i].type)) = "Plugin"
              => settings[1].Nodes[i].plugin # None

----------------------------------------------------------------------------
(* The Voicemeeter device *)

C24_NoIOAfterStop ==
    [][ (audio.pc = "loaded" /\ audio'.pc = "idle" /\ audio'.invoked # nullptr)
          => audio'.invoked \notin calls.stopped ]_vars

----------------------------------------------------------------------------
(* Frame conditions of the canvas handlers *)

\* the wires of a list that do not end at node id, in list order
WiresNotInto(ws, id) == SelectSeq(ws, LAMBDA w : w.toNode # id)
\* the engine connections that do not end at engine node uid
ConnsNotInto(conns, uid) == {c \in conns : c[3] # uid}

\* C25: an accepted connect(A, B) keeps every wire whose destination is not B (A's other
\* outgoing wires included), keeps the node list, and keeps the engine connections into
\* every engine node other than B's.
C25_ConnectFrame ==
    [][ last'.op = "connect"
          => /\ WiresNotInto(wires', last'.b) = WiresNotInto(wires, last'.b)
             /\ nodes' = nodes
             /\ ConnsNotInto(graphConns', EngineOf(last'.b))
                  = ConnsNotInto(graphConns, EngineOf(last'.b)) ]_vars

\* connect(A, B) has just superseded a wire into B while A has another outgoing wire,
\* whose engine connection is in place
C25_Witness ==
    /\ last.op = "connect"
    /\ last.others # {}
    /\ \E i \in Indices(wires) :
          /\ wires[i].fromNode = last.a /\ wires[i].toNode # last.b
          /\ Linked(graphConns, EngineOf(last.a), EngineOf(wires[i].toNode))
          /\ EngineOf(wires[i].toNode) # EngineOf(last.b)

\* the engine connections that carry a wire of the list ws
ConnsOfWires(ns, ws, conns) ==
    {c \in conns : \E i \in Indices(ws) :
        /\ HasNode(ns, ws[i].fromNode) /\ HasNode(ns, ws[i].toNode)
        /\ c[1] = FindLast(ns, ws[i].fromNode).graphNodeId
        /\ c[3] = FindLast(ns, ws[i].toNode).graphNodeId}

\* C26: removeNode(X) leaves every other node as it was and in its place, leaves every
\* wire that does not touch X in the wire list, and leaves the engine connections of the
\* remaining wires intact; removeNode of an id that is not in the node list changes
\* nothing and fires no notification.
C26_RemoveNodeFrame ==
    [][ /\ last'.op = "removeNode"
          => /\ nodes' = SelectSeq(nodes, LAMBDA n : n.id # last'.a)
             /\ wires' = SelectSeq(wires, LAMBDA w : w.fromNode # last'.a /\ w.toNode # last'.a)
             /\ ConnsOfWires(nodes', wires', graphConns) \subseteq graphConns'
        /\ last'.op = "removeMissing"
          => /\ UNCHANGED <<nodes, wires, nextId, graphNodes, graphConns, lastNodeID>>
             /\ last'.notified = 0 ]_vars

\* C27: disconnectNode(N) removes from the wire list exactly the wires that have N as
\* source or destination and removes their engine connections, leaves every other wire
\* and its engine connection in place, leaves the node list unchanged, and ends with an
\* engine rebuild and a graph-changed notification.
C27_DisconnectFrame ==
    [][ last'.op = "disconnectNode"
          => /\ wires' = SelectSeq(wires, LAMBDA w : w.fromNode # last'.a /\ w.toNode # last'.a)
             /\ \A i \in Indices(wires) :
                   (wires[i].fromNode = last'.a \/ wires[i].toNode = last'.a)
                     => \A ch \in {0, 1} :
                           Conn(EngineOf(wires[i].fromNode), EngineOf(wires[i].toNode), ch)
                             \notin graphConns'
             /\ ConnsOfWires(nodes', wires', graphConns) \subseteq graphConns'
             /\ nodes' = nodes
             /\ last'.rebuilds >= 1 /\ last'.unbuilt = 0
             /\ last'.notified = 1 ]_vars

\* C28: a node drag changes only the position of the dragged node, never the wire list,
\* another node, the id counter or the engine, and calls no engine operation; only a
\* Plugin node is repositioned (a drag started on an Input or Output node changes no
\* position); a drag step that leaves the position equal fires no notification.
C28_DragFrame ==
    [][ last'.op \in {"reposition", "mouseDrag"}
          => /\ wires' = wires /\ nextId' = nextId
             /\ UNCHANGED <<graphNodes, graphConns, lastNodeID>>
             /\ last'.rebuilds = 0 /\ last'.unbuilt = 0
             /\ Len(nodes') = Len(nodes)
             /\ \A i \in Indices(nodes) :
                   \/ nodes'[i] = nodes[i]
                   \/ /\ nodes[i].id = draggingNode
                      /\ nodes[i].type = "Plugin"
                      /\ nodes'[i] = [nodes[i] EXCEPT !.pos = nodes'[i].pos]
             /\ (selectedNode >= 0 /\ HasNode(nodes, selectedNode)
                   /\ KindOf(selectedNode) # "Plugin") => nodes' = nodes
             /\ nodes' = nodes => last'.notified = 0 ]_vars

\* a Plugin node with a wire has just been moved by a drag
C28_Witness ==
    /\ last.op = "reposition"
    /\ \E i \in Indices(wires) : wires[i].fromNode = last.a \/ wires[i].toNode = last.a

\* C29: addNode with kind Input or Output appends exactly one node with a fresh id, bound
\* to the fixed engine identity of its lane (Input 1000000, Output 1000001), and makes no
\* engine mutation: the engine's nodes and connections and the wire list are unchanged.
C29_AddLaneNodeFrame ==
    [][ last'.op = "addNode"
          => /\ Len(nodes') = Len(nodes) + 1
             /\ SubSeq(nodes', 1, Len(nodes)) = nodes
             /\ nodes'[Len(nodes')].id \notin NodeIds
             /\ nodes'[Len(nodes')].id = last'.a
             /\ nodes'[Len(nodes')].type \in {"Input", "Output"}
             /\ nodes'[Len(nodes')].graphNodeId
                  = IF nodes'[Len(nodes')].type = "Input" THEN 1000000 ELSE 1000001
             /\ UNCHANGED <<graphNodes, graphConns, lastNodeID>>
             /\ last'.rebuilds = 0 /\ last'.unbuilt = 0
             /\ wires' = wires ]_vars

\* an Output node has just been added to a canvas that has nodes, wires and engine
\* connections
C29_Witness ==
    /\ last.op = "addNode"
    /\ nodes[Len(nodes)].type = "Output" /\ nodes[Len(nodes)].graphNodeId = 1000001
    /\ Len(nodes) > 1 /\ wires # << >> /\ graphConns # {}

\* the engine takes a route e1 -> e2 on channel ch: both nodes are there and differ, and
\* the source has that output channel and the destination that input channel
Routable(e1, e2, ch) ==
    /\ e1 \in DOMAIN graphNodes /\ e2 \in DOMAIN graphNodes /\ e1 # e2
    /\ ch < NumOutputChannels(graphNodes[e1])
    /\ ch < NumInputChannels(graphNodes[e2])

\* C30: when both endpoint engine nodes exist, addGraphConnection attempts the channel-0
\* and the channel-1 route, the channel-1 route also when the channel-0 route was
\* refused, and calls the engine rebuild afterwards whatever the two results;
\* removeGraphConnection removes both channel routes, a missing route being a no-op.
C30_EngineHelpers ==
    [][ /\ ( /\ last'.op = "addGraphConnection"
             /\ last'.a \in DOMAIN graphNodes /\ last'.b \in DOMAIN graphNodes )
          => /\ graphConns'
                  = graphConns \cup {Conn(last'.a, last'.b, ch) :
                                        ch \in {c \in {0, 1} : Routable(last'.a, last'.b, c)}}
             /\ last'.rebuilds = 1
        /\ last'.op = "removeGraphConnection"
          => /\ graphConns' = graphConns \ {Conn(last'.a, last'.b, 0), Conn(last'.a, last'.b, 1)}
             /\ last'.rebuilds = 1 ]_vars

\* the channel-0 route was refused (it was there already) and the channel-1 route has
\* been added all the same, followed by a rebuild
C30_Witness ==
    /\ last.op = "addGraphConnection"
    /\ last.others = {0}
    /\ Conn(last.a, last.b, 0) \in graphConns /\ Conn(last.a, last.b, 1) \in graphConns
    /\ last.rebuilds = 1

----------------------------------------------------------------------------
(* Loading a saved document *)

\* id names a restored node that is bound to an engine node
RestoredEnd(id) == HasNode(nodes, id) /\ EngineOf(id) # 0

\* C31: after loadState every engine connection belongs to a persisted wire whose two
\* endpoint ids name restored nodes with a non-null engine node; a wire that refers to a
\* missing node or to a plugin that failed to instantiate yields no connection.
C31_NoHalfValidConnections ==
    last.op = "loadState"
      => \A c \in graphConns :
            \E i \in Indices(wires) :
               /\ RestoredEnd(wires[i].fromNode) /\ RestoredEnd(wires[i].toNode)
               /\ c[1] = EngineOf(wires[i].fromNode)
               /\ c[3] = EngineOf(wires[i].toNode)

\* a document with a wire from an Input node into a plugin that failed to instantiate
\* has been loaded, and the engine holds no connection
C31_Witness ==
    /\ last.op = "loadState"
    /\ \E i \in Indices(wires) :
          /\ wires[i].toNode \in last.others
          /\ RestoredEnd(wires[i].fromNode)
          /\ HasNode(nodes, wires[i].toNode) /\ EngineOf(wires[i].toNode) = 0
    /\ graphConns = {}

\* C32, as stated: every call of loadState, for every document (one with no Nodes element
\* or no Wires element included), makes an engine rebuild after its last change, before
\* it returns.
C32_LoadRebuildsAsClaimed ==
    last.op = "loadState" => last.rebuilds >= 1 /\ last.unbuilt = 0

\* C32: every call of loadState on a document that has a Nodes element, with or without
\* a Wires element, makes an engine rebuild after its last change, before it returns; on
\* a document with no Nodes element it empties the node list and the wire list, leaves
\* the engine as it found it and returns without a rebuild.
C32_LoadRebuilds ==
    last.op = "loadState"
      => /\ settings[1].hasNodes => last.rebuilds >= 1 /\ last.unbuilt = 0
         /\ ~settings[1].hasNodes
              => /\ last.rebuilds = 0
                 /\ nodes = << >> /\ wires = << >>
                 /\ graphNodes = FixedGraphNodes /\ graphConns = {}
                 /\ lastNodeID = kOutputNodeUID

\* a document with a plugin node and no Wires element has been loaded: the engine node
\* was added and the one rebuild is the final one
C32_Witness ==
    /\ last.op = "loadState"
    /\ settings[1].hasNodes /\ ~settings[1].hasWires
    /\ DOMAIN graphNodes # DOMAIN FixedGraphNodes
    /\ last.rebuilds = 1

\* the first entry of a known-plugin list with the identifier, as a set of at most one
FirstMatch(known, identifier) ==
    {i \in Indices(known) :
        /\ known[i].fileOrIdentifier = identifier
        /\ \A j \in 1..(i - 1) : known[j].fileOrIdentifier # identifier}

\* C33: for a persisted Plugin node the descriptor instantiated is the first entry of the
\* known-plugin list whose fileOrIdentifier equals the persisted identifier and, when no
\* entry matches, the bare persisted triple; instantiation is attempted in both cases, so
\* a plugin absent from the list is restored whenever the service accepts the triple.
C33_DescriptorResolution ==
    [][ last'.op = "restorePlugin"
          => LET known == KnownLists[last'.a]
                 xp == PersistedNodes[last'.b].plugin[1]
                 first == FirstMatch(known, xp.pluginFileOrIdentifier)
                 format == IF first # {} THEN known[CHOOSE i \in first : TRUE].pluginFormatName
                           ELSE xp.pluginFormat
                 name == IF first # {} THEN known[CHOOSE i \in first : TRUE].name
                         ELSE xp.pluginName
                 accepted == format \in KnownFormats /\ last'.others = {"ok"}
                 n == nodes'[Len(nodes')]
             IN /\ Len(nodes') = Len(nodes) + 1
                /\ accepted <=> n.graphNodeId # 0
                /\ accepted
                     => /\ n.graphNodeId \in DOMAIN graphNodes' \ DOMAIN graphNodes
                        /\ graphNodes'[n.graphNodeId].desc[1].name = name
                        /\ graphNodes'[n.graphNodeId].desc[1].pluginFormatName = format
                        /\ graphNodes'[n.graphNodeId].desc[1].fileOrIdentifier
                             = xp.pluginFileOrIdentifier
                /\ ~accepted => graphNodes' = graphNodes ]_vars

\* a plugin that no entry of the known list matches has been restored from its bare
\* triple
C33_Witness ==
    /\ last.op = "restorePlugin"
    /\ FirstMatch(KnownLists[last.a],
                  PersistedNodes[last.b].plugin[1].pluginFileOrIdentifier) = {}
    /\ KnownLists[last.a] # << >>
    /\ nodes[Len(nodes)].graphNodeId # 0
    /\ graphNodes[nodes[Len(nodes)].graphNodeId].desc[1].name = "Delay"

----------------------------------------------------------------------------
(* Selection, placement, drags *)

\* C34: in every reachable state the selected node is none (-1) or the id of a node of
\* the node list; after removeNode(X), by the Delete key or by a context-menu callback,
\* the selection does not refer to X.
C34_SelectionValid ==
    /\ selectedNode = -1 \/ selectedNode \in NodeIds
    /\ last.op = "removeNode" => selectedNode # last.a

\* the context menu of a node has just deleted it while other nodes remain
C34_Witness ==
    /\ last.op = "removeNode"
    /\ nodes # << >>
    /\ selectedNode = -1
    /\ last.a \notin NodeIds

\* the positions showPluginPicker gives: a node at one of them has not been dragged away
DefaultPositions ==
    {<< (Width - kZoneW * 2) \div 2 + kZoneW - kW \div 2, 60 + k * (kH + 20) >> : k \in 0..MaxId}

\* C35: after any sequence of adds and deletes no two Input nodes have the same position,
\* no two Output nodes have the same position, and a newly added Plugin node is not given
\* the default position at which another, undragged Plugin node sits.
C35_PlacementCollisionFree ==
    /\ [](\A i, j \in Indices(nodes) :
            (i # j /\ nodes[i].type = nodes[j].type /\ nodes[i].type \in {"Input", "Output"})
              => nodes[i].pos # nodes[j].pos)
    /\ [][ last'.op = "addPlugin"
             => \A i \in Indices(nodes) :
                   (nodes[i].type = "Plugin" /\ nodes[i].pos \in DefaultPositions)
                     => nodes[i].pos # nodes'[Len(nodes')].pos ]_vars

----------------------------------------------------------------------------
\* the node the drag in progress started from is no longer in the node list
DragSourceGone ==
    /\ buttonDown
    /\ \/ draggingWire /\ wireFrom >= 0 /\ ~HasNode(nodes, wireFrom)
       \/ ~draggingWire /\ draggingNode >= 0 /\ ~HasNode(nodes, draggingNode)

\* C36: when the node a wire drag or a position drag started from is deleted while the
\* drag is in progress, the mouse-drag and mouse-up events that follow create no wire, add
\* no engine connection and change no node; and after every mouse-up the drag state is
\* reset (no wire drag, no source node, no dragged node).
C36_DeleteDuringDrag ==
    /\ [][ (DragSourceGone /\ last'.op \in {"mouseDrag", "reposition", "mouseUp", "connect"})
             => UNCHANGED <<nodes, wires, graphNodes, graphConns>> ]_vars
    /\ [][ (buttonDown /\ ~buttonDown')
             => (~draggingWire' /\ ~wireDragFromInput' /\ wireFrom' = -1 /\ draggingNode' = -1) ]_vars

\* a wire drag whose source node was deleted has been released and the drag state is reset
C36_Witness ==
    /\ last.op = "mouseUp" /\ last.a >= 0 /\ ~HasNode(nodes, last.a)
    /\ Len(nodes) >= 1
    /\ ~buttonDown /\ ~draggingWire /\ wireFrom = -1 /\ draggingNode = -1

----------------------------------------------------------------------------
\* the Plugin nodes of the canvas node list whose engineNodeId is uid
OwnersOf(uid) == {i \in Indices(nodes) : nodes[i].type = "Plugin" /\ nodes[i].graphNodeId = uid}

\* C37: in every state reachable from startup, with loadState run at most once before any
\* other operation of a launch, every engine node other than the two fixed lane nodes is
\* the engineNodeId of exactly one Plugin node in the canvas node list.
C37_NoLeakedEngineNodes ==
    \A uid \in DOMAIN graphNodes \ {kInputNodeUID, kOutputNodeUID} :
        Cardinality(OwnersOf(uid)) = 1

\* after a restart that restored a plugin, another plugin node was deleted and its engine
\* node went with it, while the restored plugin's engine node still has its one owner
C37_Witness ==
    /\ launches >= 1
    /\ last.op = "removeNode" /\ last.b \notin {0, kInputNodeUID, kOutputNodeUID}
    /\ ~HasGraphNode(graphNodes, last.b)
    /\ \E uid \in DOMAIN graphNodes \ {kInputNodeUID, kOutputNodeUID} :
          Cardinality(OwnersOf(uid)) = 1

----------------------------------------------------------------------------
\* C38: after any sequence of open, close, start and stop calls with any backend results,
\* playing implies open, open implies that the callback is registered and the session is
\* logged in, a registered callback implies a logged-in session, the stored JUCE callback
\* pointer is non-null exactly when the device is playing, and start() with a null callback
\* or on a device that is not open changes no state.
C38_DeviceLifecycle ==
    /\ devicePlaying => deviceOpen
    /\ deviceOpen => (callbackRegistered /\ loggedIn)
    /\ callbackRegistered => loggedIn
    /\ (juceCallback # nullptr) <=> devicePlaying
    /\ \A callback \in Callbacks \cup {nullptr}, startResult \in StartResults :
          (callback = nullptr \/ ~deviceOpen) => start(Device, callback, startResult) = Device

\* start() has been called on an open device and the backend refused to start the stream:
\* the device is playing with its callback stored
C38_Witness ==
    /\ calls.op = "start" /\ deviceOpen /\ devicePlaying /\ juceCallback # nullptr
    /\ callbackRegistered /\ loggedIn
    /\ ~vm.streaming

----------------------------------------------------------------------------
\* C39: the handler of a STARTING or CHANGE command calls no audioDeviceAboutToStart and
\* restarts no stream on the audio thread, it posts the work to the message thread; a
\* posted task that runs when the device has been stopped invokes no callback and does not
\* restart the stream; and one that runs after the device has been destroyed touches no
\* device state.
C39_DeferredWorkSafe ==
    /\ [][ Len(pending') > Len(pending)
             => /\ deferred'.thread = "audio"
                /\ deferred'.invoked = nullptr /\ ~deferred'.restarted
                /\ vm' = vm ]_vars
    /\ [][ Len(pending') < Len(pending)
             => /\ deferred'.thread = "message"
                /\ ~devicePlaying
                     => (deferred'.invoked = nullptr /\ ~deferred'.restarted /\ vm' = vm)
                /\ destroyed
                     => (deferred'.touched = {} /\ deferred'.invoked = nullptr
                          /\ ~deferred'.restarted /\ UNCHANGED <<Device, calls>>) ]_vars
    /\ [](deferred.invoked # nullptr \/ deferred.restarted => deferred.thread = "message")

\* a task posted while the device played has run after the device was destroyed
C39_Witness ==
    /\ destroyed /\ deferred.op = "run" /\ deferred.touched = {}
    /\ calls.wasPlaying /\ calls.op = "destructor"
====
